---- MODULE Spec2Model ----
(***************************************************************************)
(* Access-control and sharing subsystem of the file-storage gateway:       *)
(* the files router (upload, list, detail, delete, share creation, share   *)
(* listing), the share router (public access, revocation) and the API-key  *)
(* middleware, over the metadata store (files, share_links, api_keys) and  *)
(* the object store.  Every request handler is cut at its awaits on the    *)
(* stores, so requests interleave exactly where the event loop lets them.  *)
(* Strings are sequences of one-character strings.                         *)
(***************************************************************************)
EXTENDS Integers, Sequences, FiniteSets, TLC

VARIABLES now, apiKeys, files, shareLinks, objects, nextFileId, nextLinkId, reqs, out,
          revoked

vars == <<now, apiKeys, files, shareLinks, objects, nextFileId, nextLinkId, reqs, out, revoked>>

\* the metadata store and the object store
stores == <<apiKeys, files, shareLinks, objects, nextFileId, nextLinkId>>

(***************************** bounds **************************************)
\* clock ticks the model lets pass (one tick is one second)
MaxTicks == 2
\* File Records ever created
MaxFiles == 2
\* Share Links ever created
MaxLinks == 1
\* highest stored accessCount at which a new public access is still sent
MaxCount == 2

\* requests in flight at the same time
Slots == {"r1", "r2"}

\* milliseconds in one tick of the model's clock
TickMs == 1000

(***************************** strings *************************************)
Digit(d) == CASE d = 0 -> "0" [] d = 1 -> "1" [] d = 2 -> "2" [] d = 3 -> "3"
              [] d = 4 -> "4" [] d = 5 -> "5" [] d = 6 -> "6" [] d = 7 -> "7"
              [] d = 8 -> "8" [] d = 9 -> "9"

RECURSIVE Decimal(_)
\* `${n}` of a non-negative integer
Decimal(n) == IF n < 10 THEN <<Digit(n)>> ELSE Decimal(n \div 10) \o <<Digit(n % 10)>>

\* String.prototype.startsWith
StartsWith(s, p) == Len(p) <= Len(s) /\ SubSeq(s, 1, Len(p)) = p

\* the fixed prefix of share tokens
SharePrefix == <<"s", "h", "a", "r", "e", "_">>

\* String.prototype.includes
Includes(s, p) == \E i \in 0..(Len(s) - Len(p)) : SubSeq(s, i + 1, i + Len(p)) = p

\* ASCII case folding of the letters the model's names use (SQLite LIKE ignores
\* the case of ASCII letters)
Lower(c) == CASE c = "A" -> "a" [] c = "F" -> "f" [] OTHER -> c

RECURSIVE LikeMatch(_, _)
\* s LIKE p in SQLite with no ESCAPE clause: % is any run of characters, _ is
\* any one character, every other character (the backslash too) is itself
LikeMatch(s, p) ==
    IF p = <<>> THEN s = <<>>
    ELSE IF Head(p) = "%"
         THEN LikeMatch(s, Tail(p)) \/ (s /= <<>> /\ LikeMatch(Tail(s), p))
         ELSE /\ s /= <<>>
              /\ (Head(p) = "_" \/ Lower(Head(p)) = Lower(Head(s)))
              /\ LikeMatch(Tail(s), Tail(p))

(***************************** entities ************************************)
\* an absent value (null, undefined) is the empty sequence, a present one a
\* one-element sequence; an absent string is the empty string
Null == <<>>
Some(x) == <<x>>

\* APIKeyEntity rows the administrator has created
InitialKeys ==
    { [id |-> 1,  key |-> "sk_1",  name |-> "one",    isActive |-> TRUE],
      [id |-> 11, key |-> "sk_11", name |-> "eleven", isActive |-> TRUE],
      [id |-> 2,  key |-> "sk_2",  name |-> "two",    isActive |-> FALSE] }

\* X-API-Key header values a request may carry ("" is no header)
Credentials == {"", "sk_1", "sk_11", "sk_2"}

\* FileEntity (customName, metadata and updatedAt are carried along unread by
\* every handler and are left out)
FileRow(id, name, key, path, mime, size, createdAt) ==
    [id |-> id, name |-> name, key |-> key, path |-> path, mime |-> mime,
     size |-> size, createdAt |-> createdAt]

\* shareLinkRepo.create({token, fileId, expiresAt, password}) as the insert
\* stores it: the column defaults give accessCount 0 and isActive true
ShareLinkRow(id, token, fileId, expiresAt, password) ==
    [id |-> id, token |-> token, fileId |-> fileId, expiresAt |-> expiresAt,
     password |-> password, accessCount |-> 0, isActive |-> TRUE]

(***************************** store ***************************************)
\* a table is a function from the primary keys in use to the rows
EmptyTable == [i \in {} |-> 0]

\* repository.findOne({where: {id}}): the row, or null
FindById(table, id) == IF id \in DOMAIN table THEN Some(table[id]) ELSE Null

\* shareLinkRepo.findOne({where: {token}}): token is a unique column
FindByToken(table, token) ==
    LET hit == {i \in DOMAIN table : table[i].token = token}
    IN IF hit = {} THEN Null ELSE Some(table[CHOOSE i \in hit : TRUE])

\* INSERT of a row under a fresh primary key
Insert(table, row) == [i \in DOMAIN table \cup {row.id} |-> IF i = row.id THEN row ELSE table[i]]

\* DELETE of the row with this primary key
Remove(table, id) == [i \in DOMAIN table \ {id} |-> table[i]]

\* faulty variant: a save that leaves the accessCount column as it is stored
SaveWithoutAccessCount(table, entity) ==
    [table EXCEPT ![entity.id] = [entity EXCEPT !.accessCount = table[entity.id].accessCount]]

\* repository.save(entity) of a loaded entity whose row exists: TypeORM
\* compares the entity with the row and updates every column that differs,
\* so the row ends equal to the entity as the handler holds it
SaveExisting(table, entity) == [table EXCEPT ![entity.id] = entity]

\* faulty variant: a removal that leaves the share links of the file
CascadeNone(table, fileId) == table

\* ON DELETE CASCADE of share_links.fileId
CascadeLinks(table, fileId) ==
    [i \in {j \in DOMAIN table : table[j].fileId /= fileId} |-> table[i]]

(***************************** requests ************************************)
NoResp == [status |-> 0]

\* a slot that holds no request
Idle == [kind |-> "none", pc |-> "idle", user |-> 0, in |-> Null, loc |-> Null]

Free(s) == reqs[s].pc = "idle"

\* no response was sent in the last step
NoOut == [kind |-> "none", user |-> 0, in |-> Null, loc |-> Null, resp |-> NoResp]

\* res.status(..).json(..): the request is over; out is the response the last
\* step sent, with the request it answers and the handler's local variables at
\* that point
Respond(s, kind, user, in, loc, resp) ==
    /\ reqs' = [reqs EXCEPT ![s] = Idle]
    /\ out' = [kind |-> kind, user |-> user, in |-> in, loc |-> loc, resp |-> resp]

\* the handler is suspended at an await with its local variables
Await(s, kind, user, in, pc, loc) ==
    /\ reqs' = [reqs EXCEPT ![s] = [kind |-> kind, pc |-> pc, user |-> user,
                                    in |-> in, loc |-> loc]]
    /\ out' = NoOut

Error(status, msg) == [status |-> status, error |-> msg]

(***************************** identity resolver ***************************)
\* faulty variant: a lookup that leaves out isActive: true
authenticateAnyKey(cred) ==
    IF cred = ""
    THEN [ok |-> FALSE, id |-> 0, name |-> "",
          resp |-> Error(401, "API key required. Provide X-API-Key header.")]
    ELSE LET found == {k \in apiKeys : k.key = cred}
         IN IF found = {}
            THEN [ok |-> FALSE, id |-> 0, name |-> "",
                  resp |-> Error(401, "Invalid or inactive API key")]
            ELSE [ok |-> TRUE, id |-> (CHOOSE k \in found : TRUE).id,
                  name |-> (CHOOSE k \in found : TRUE).name, resp |-> NoResp]

\* authenticateAPIKey: the outcome of the middleware for an X-API-Key value;
\* ok is whether next() is called, id and name are what req.apiKey holds then
authenticateAPIKey(cred) ==
    IF cred = ""
    THEN [ok |-> FALSE, id |-> 0, name |-> "",
          resp |-> Error(401, "API key required. Provide X-API-Key header.")]
    ELSE LET found == {k \in apiKeys : k.key = cred /\ k.isActive}
         IN IF found = {}
            THEN [ok |-> FALSE, id |-> 0, name |-> "",
                  resp |-> Error(401, "Invalid or inactive API key")]
            ELSE [ok |-> TRUE, id |-> (CHOOSE k \in found : TRUE).id,
                  name |-> (CHOOSE k \in found : TRUE).name, resp |-> NoResp]

\* X-API-Key values sent to the middleware alone: those of Credentials and one
\* that no row holds
AuthHeaders == Credentials \cup {"sk_9"}

\* the middleware on a request for a protected route: it answers 401, or
\* attaches req.apiKey and calls next()
Authenticate(s, cred) ==
    LET a == authenticateAPIKey(cred)
        in == [header |-> cred]
    IN /\ Free(s)
       /\ IF ~a.ok THEN Respond(s, "auth", 0, in, Null, a.resp)
          ELSE Await(s, "auth", a.id, in, "next", [apiKey |-> [id |-> a.id, name |-> a.name]])
       /\ UNCHANGED <<now, stores, revoked>>

\* the handler next() runs, which answers with the identity it was given
NextHandler(s) ==
    LET r == reqs[s]
    IN /\ r.kind = "auth" /\ r.pc = "next"
       /\ Respond(s, "auth", r.user, r.in, r.loc, [status |-> 200, apiKey |-> r.loc.apiKey])
       /\ UNCHANGED <<now, stores, revoked>>

\* faulty variant: the prefix test without the separator
OwnsFileNoSlash(userId, file) == StartsWith(file.key, Decimal(userId))

\* faulty variant: the separator is kept, but the test looks for `${userId}/`
\* anywhere in the key
OwnsFileIncludes(userId, file) == Includes(file.key, Decimal(userId) \o <<"/">>)

\* file.key.startsWith(`${userId}/`)
OwnsFile(userId, file) == StartsWith(file.key, Decimal(userId) \o <<"/">>)

(***************************** path normalizer *****************************)
LowerLetters == {"a","b","c","d","e","f","g","h","i","j","k","l","m",
                 "n","o","p","q","r","s","t","u","v","w","x","y","z"}
UpperLetters == {"A","B","C","D","E","F","G","H","I","J","K","L","M",
                 "N","O","P","Q","R","S","T","U","V","W","X","Y","Z"}
Digits == {"0","1","2","3","4","5","6","7","8","9"}

RECURSIVE DropLeading(_, _)
DropLeading(s, cs) == IF s /= <<>> /\ Head(s) \in cs THEN DropLeading(Tail(s), cs) ELSE s

RECURSIVE DropTrailing(_, _)
DropTrailing(s, cs) ==
    IF s /= <<>> /\ s[Len(s)] \in cs THEN DropTrailing(SubSeq(s, 1, Len(s) - 1), cs) ELSE s

\* String.prototype.trim, for the whitespace the model's inputs use
Trim(s) == DropTrailing(DropLeading(s, {" "}), {" "})

\* faulty variant: only the leading slashes are stripped
normalizePathLeadingOnly(path) ==
    LET normalized == DropLeading(Trim(path), {"/"})
    IN IF path = Null \/ normalized = <<>> THEN [ok |-> TRUE, path |-> Null]
       ELSE IF Includes(normalized, <<".", ".">>) THEN [ok |-> FALSE, path |-> Null]
       ELSE IF Includes(normalized, <<"/", "/">>) THEN [ok |-> FALSE, path |-> Null]
       ELSE IF \E i \in 1..Len(normalized) :
                   normalized[i] \notin LowerLetters \cup UpperLetters \cup Digits \cup {"/", "_", "-"}
            THEN [ok |-> FALSE, path |-> Null]
       ELSE [ok |-> TRUE, path |-> normalized]

\* normalizePath: [ok, path], path Null for "no path"; ok FALSE is the throw
normalizePath(path) ==
    LET normalized == DropTrailing(DropLeading(Trim(path), {"/"}), {"/"})
    IN IF path = Null \/ normalized = <<>> THEN [ok |-> TRUE, path |-> Null]
       ELSE IF Includes(normalized, <<".", ".">>) THEN [ok |-> FALSE, path |-> Null]
       ELSE IF Includes(normalized, <<"/", "/">>) THEN [ok |-> FALSE, path |-> Null]
       ELSE IF \E i \in 1..Len(normalized) :
                   normalized[i] \notin LowerLetters \cup UpperLetters \cup Digits \cup {"/", "_", "-"}
            THEN [ok |-> FALSE, path |-> Null]
       ELSE [ok |-> TRUE, path |-> normalized]

(***************************** upload **************************************)
\* multipart uploads the model sends: the file part (Null when the request has
\* none) and the raw path field
UploadInputs ==
    { [file |-> Some([originalname |-> <<"f">>, mimetype |-> "text/plain", size |-> 1]),
       path |-> Null],
      [file |-> Some([originalname |-> <<"F">>, mimetype |-> "image/png", size |-> 5]),
       path |-> <<"/", "a", "/">>],
      [file |-> Some([originalname |-> <<"f">>, mimetype |-> "text/plain", size |-> 1]),
       path |-> <<".", ".">>],
      [file |-> Null, path |-> Null] }

\* whether an object-store call succeeds
StorageOutcomes == {TRUE, FALSE}

\* uploadFileSchema on the multer fields
UploadValid(file) == Len(file.originalname) >= 1 /\ file.mimetype /= "" /\ file.size > 0

\* faulty variant: a key without the tenant folder
StorageKeyNoTenant(userId, path, timestamp, originalname) ==
    IF path /= Null
    THEN path \o <<"/">> \o Decimal(timestamp) \o <<"-">> \o originalname
    ELSE Decimal(timestamp) \o <<"-">> \o originalname

\* `${userId}/${normalizedPath}/${timestamp}-${originalname}`, the path segment
\* left out when there is no path
StorageKey(userId, path, timestamp, originalname) ==
    IF path /= Null
    THEN Decimal(userId) \o <<"/">> \o path \o <<"/">> \o Decimal(timestamp) \o <<"-">> \o originalname
    ELSE Decimal(userId) \o <<"/">> \o Decimal(timestamp) \o <<"-">> \o originalname

InFlight(kind) == Cardinality({s \in Slots : reqs[s].kind = kind})

\* faulty variant: the handler goes on to the record when the put has failed
UploadPutIgnoresFailure(s, cred, in, stored) ==
    LET a == authenticateAPIKey(cred)
        np == normalizePath(in.path)
    IN /\ Free(s)
       /\ nextFileId + InFlight("upload") <= MaxFiles
       /\ IF ~a.ok THEN Respond(s, "upload", 0, in, Null, a.resp) /\ UNCHANGED objects
          ELSE IF in.file = Null
          THEN Respond(s, "upload", a.id, in, Null, Error(400, "No file uploaded")) /\ UNCHANGED objects
          ELSE IF ~UploadValid(in.file[1])
          THEN Respond(s, "upload", a.id, in, Null, Error(400, "validation")) /\ UNCHANGED objects
          ELSE IF ~np.ok
          THEN Respond(s, "upload", a.id, in, Null, Error(400, "Invalid path")) /\ UNCHANGED objects
          ELSE LET key == StorageKey(a.id, np.path, now, in.file[1].originalname)
               IN /\ objects' = IF stored THEN objects \cup {key} ELSE objects
                  /\ Await(s, "upload", a.id, in, "record", [key |-> key, path |-> np.path])
       /\ UNCHANGED <<now, apiKeys, files, shareLinks, nextFileId, nextLinkId, revoked>>

\* faulty variant: the object is put before the path is checked
UploadPutBeforePath(s, cred, in, stored) ==
    LET a == authenticateAPIKey(cred)
        np == normalizePath(in.path)
    IN /\ Free(s)
       /\ nextFileId + InFlight("upload") <= MaxFiles
       /\ IF ~a.ok THEN Respond(s, "upload", 0, in, Null, a.resp) /\ UNCHANGED objects
          ELSE IF in.file = Null
          THEN Respond(s, "upload", a.id, in, Null, Error(400, "No file uploaded")) /\ UNCHANGED objects
          ELSE IF ~UploadValid(in.file[1])
          THEN Respond(s, "upload", a.id, in, Null, Error(400, "validation")) /\ UNCHANGED objects
          ELSE IF ~np.ok
          THEN /\ objects' = objects \cup {StorageKey(a.id, in.path, now, in.file[1].originalname)}
               /\ Respond(s, "upload", a.id, in, Null, Error(400, "Invalid path"))
          ELSE LET key == StorageKey(a.id, np.path, now, in.file[1].originalname)
               IN IF stored
                  THEN /\ objects' = objects \cup {key}
                       /\ Await(s, "upload", a.id, in, "record", [key |-> key, path |-> np.path])
                  ELSE /\ Respond(s, "upload", a.id, in, Null, Error(500, "Failed to upload file"))
                       /\ UNCHANGED objects
       /\ UNCHANGED <<now, apiKeys, files, shareLinks, nextFileId, nextLinkId, revoked>>

\* POST /files/upload up to the await on storageService.uploadFile
UploadPut(s, cred, in, stored) ==
    LET a == authenticateAPIKey(cred)
        np == normalizePath(in.path)
    IN /\ Free(s)
       /\ nextFileId + InFlight("upload") <= MaxFiles
       /\ IF ~a.ok THEN Respond(s, "upload", 0, in, Null, a.resp) /\ UNCHANGED objects
          ELSE IF in.file = Null
          THEN Respond(s, "upload", a.id, in, Null, Error(400, "No file uploaded")) /\ UNCHANGED objects
          ELSE IF ~UploadValid(in.file[1])
          THEN Respond(s, "upload", a.id, in, Null, Error(400, "validation")) /\ UNCHANGED objects
          ELSE IF ~np.ok
          THEN Respond(s, "upload", a.id, in, Null, Error(400, "Invalid path")) /\ UNCHANGED objects
          ELSE LET key == StorageKey(a.id, np.path, now, in.file[1].originalname)
               IN IF stored
                  THEN /\ objects' = objects \cup {key}
                       /\ Await(s, "upload", a.id, in, "record", [key |-> key, path |-> np.path])
                  ELSE /\ Respond(s, "upload", a.id, in, Null, Error(500, "Failed to upload file"))
                       /\ UNCHANGED objects
       /\ UNCHANGED <<now, apiKeys, files, shareLinks, nextFileId, nextLinkId, revoked>>

\* POST /files/upload from fileRepo.save(fileEntity) to the 201 response
UploadRecord(s) ==
    LET r == reqs[s]
        f == r.in.file[1]
        row == FileRow(nextFileId, f.originalname, r.loc.key, r.loc.path, f.mimetype, f.size, now)
    IN /\ r.kind = "upload" /\ r.pc = "record"
       /\ files' = Insert(files, row)
       /\ nextFileId' = nextFileId + 1
       /\ Respond(s, "upload", r.user, r.in, Null, [status |-> 201, file |-> row])
       /\ UNCHANGED <<now, apiKeys, shareLinks, objects, nextLinkId, revoked>>

\* POST /files/upload when fileRepo.save(fileEntity) throws: the catch block
\* answers 500 and the object stays in the store
UploadRecordFailed(s) ==
    LET r == reqs[s]
    IN /\ r.kind = "upload" /\ r.pc = "record"
       /\ Respond(s, "upload", r.user, r.in, Null, Error(500, "Failed to upload file"))
       /\ UNCHANGED <<now, stores, revoked>>

(***************************** views ***************************************)
\* storageService.getDownloadUrl(key): a presigned URL for the key
DownloadUrl(key) == [signed |-> key]

\* faulty variant: the link entity sent as stored
LinkViewWithPassword(link) ==
    [token |-> link.token, expiresAt |-> link.expiresAt, password |-> link.password,
     hasPassword |-> (link.password /= Null), accessCount |-> link.accessCount]

\* a share link as the list and detail responses show it (shareUrl is the base
\* URL followed by the token)
LinkView(link) ==
    [token |-> link.token, expiresAt |-> link.expiresAt,
     hasPassword |-> (link.password /= Null), accessCount |-> link.accessCount]

\* faulty variant: a find without the isActive and expiresAt conditions
AllLinks(fileIds, t) ==
    {shareLinks[i] : i \in {j \in DOMAIN shareLinks : shareLinks[j].fileId \in fileIds}}

\* shareLinkRepo.find({where: {fileId: In(fileIds), isActive: true,
\* expiresAt: MoreThan(new Date())}})
ActiveLinks(fileIds, t) ==
    {shareLinks[i] : i \in {j \in DOMAIN shareLinks :
        /\ shareLinks[j].fileId \in fileIds
        /\ shareLinks[j].isActive
        /\ shareLinks[j].expiresAt > t}}

\* a file with its active share links, as the list and detail responses show it
FileView(file, links) ==
    [file |-> file, shareLinks |-> {LinkView(l) : l \in {k \in links : k.fileId = file.id}}]

(***************************** detail **************************************)
\* GET /files/:id up to the await on shareLinkRepo.find
DetailFind(s, cred, id, signed) ==
    LET a == authenticateAPIKey(cred)
        file == FindById(files, id)
        in == [id |-> id]
    IN /\ Free(s)
       /\ IF ~a.ok THEN Respond(s, "detail", 0, in, Null, a.resp)
          ELSE IF file = Null THEN Respond(s, "detail", a.id, in, Null, Error(404, "File not found"))
          ELSE IF ~OwnsFile(a.id, file[1])
          THEN Respond(s, "detail", a.id, in, Null,
                       Error(403, "Access denied. This file belongs to another user."))
          ELSE IF ~signed
          THEN Respond(s, "detail", a.id, in, Null, Error(500, "Failed to retrieve file details"))
          ELSE Await(s, "detail", a.id, in, "links", [file |-> file[1]])
       /\ UNCHANGED <<now, stores, revoked>>

\* GET /files/:id from the share links read to the response
DetailLinks(s) ==
    LET r == reqs[s]
        view == FileView(r.loc.file, ActiveLinks({r.in.id}, now))
    IN /\ r.kind = "detail" /\ r.pc = "links"
       /\ Respond(s, "detail", r.user, r.in, Null,
                  [status |-> 200, file |-> view.file, downloadUrl |-> DownloadUrl(r.loc.file.key),
                   shareLinks |-> view.shareLinks])
       /\ UNCHANGED <<now, stores, revoked>>

(***************************** delete **************************************)
\* DELETE /files/:id up to the await on storageService.deleteFile
DeleteFind(s, cred, id) ==
    LET a == authenticateAPIKey(cred)
        file == FindById(files, id)
        in == [id |-> id]
    IN /\ Free(s)
       /\ IF ~a.ok THEN Respond(s, "delete", 0, in, Null, a.resp)
          ELSE IF file = Null THEN Respond(s, "delete", a.id, in, Null, Error(404, "File not found"))
          ELSE IF ~OwnsFile(a.id, file[1])
          THEN Respond(s, "delete", a.id, in, Null,
                       Error(403, "Access denied. This file belongs to another user."))
          ELSE Await(s, "delete", a.id, in, "rmobj", [file |-> file[1]])
       /\ UNCHANGED <<now, stores, revoked>>

\* DELETE /files/:id: storageService.deleteFile(file.key)
DeleteObject(s, deleted) ==
    LET r == reqs[s]
    IN /\ r.kind = "delete" /\ r.pc = "rmobj"
       /\ IF deleted
          THEN /\ objects' = objects \ {r.loc.file.key}
               /\ Await(s, "delete", r.user, r.in, "rmrec", r.loc)
          ELSE /\ Respond(s, "delete", r.user, r.in, Null, Error(500, "Failed to delete file"))
               /\ UNCHANGED objects
       /\ UNCHANGED <<now, apiKeys, files, shareLinks, nextFileId, nextLinkId, revoked>>

\* DELETE /files/:id: fileRepo.remove(file), which cascades to the share links
DeleteRecord(s) ==
    LET r == reqs[s]
    IN /\ r.kind = "delete" /\ r.pc = "rmrec"
       /\ files' = Remove(files, r.in.id)
       /\ shareLinks' = CascadeLinks(shareLinks, r.in.id)
       /\ Respond(s, "delete", r.user, r.in, Null, [status |-> 200, message |-> "File deleted successfully"])
       /\ UNCHANGED <<now, apiKeys, objects, nextFileId, nextLinkId, revoked>>

\* DELETE /files/:id when fileRepo.remove(file) throws: the catch block
\* answers 500 after the object has been deleted
DeleteRecordFailed(s) ==
    LET r == reqs[s]
    IN /\ r.kind = "delete" /\ r.pc = "rmrec"
       /\ Respond(s, "delete", r.user, r.in, Null, Error(500, "Failed to delete file"))
       /\ UNCHANGED <<now, stores, revoked>>

(***************************** share token issuer **************************)
\* Default TTL for share links: 7 days (in seconds)
DEFAULT_TTL == 7 * 24 * 60 * 60

\* the random parts generateShareToken can draw; one character of the model
\* stands for the 64 hexadecimal characters
TokenPool == {"a", "b"}

\* generateShareToken(): the tokens one call can return
generateShareToken == {SharePrefix \o <<h>> : h \in TokenPool}

\* bcrypt.hash(password, 10); the salt is left out, two hashes of one password
\* are the same value
BcryptHash(password) == Some([alg |-> "bcrypt", rounds |-> 10, of |-> password])

\* faulty variant: a comparison that accepts every password
BcryptCompareAny(password, hash) == TRUE

\* bcrypt.compare(password, hash)
BcryptCompare(password, hash) == hash = BcryptHash(password)

\* bodies of POST /files/:id/share: ttl, a string (Null when absent), and
\* password (empty when absent)
ShareInputs ==
    { [ttl |-> Null,                password |-> <<>>],
      [ttl |-> Some(<<"1">>),       password |-> <<"a", "b", "c", "d">>],
      [ttl |-> Some(<<"1">>),       password |-> <<>>],
      [ttl |-> Some(<<"0">>),       password |-> <<>>],
      [ttl |-> Some(<<"0">>),       password |-> <<"a", "b", "c">>],
      [ttl |-> Some(<<"1", "h">>),  password |-> <<>>] }

\* the value of a decimal digit
DigitValue(c) == CHOOSE d \in 0..9 : Digit(d) = c

\* Number(s) of a string of decimal digits
RECURSIVE ToNumber(_)
ToNumber(s) == IF s = <<>> THEN 0 ELSE 10 * ToNumber(SubSeq(s, 1, Len(s) - 1)) + DigitValue(s[Len(s)])

\* createShareLinkSchema: ttl: z.string().regex(/^\d+$/), password:
\* z.string().min(4)
MinPasswordLen == 4
\* faulty variant: a schema that refuses a ttl of zero
ShareValidPositiveTtl(in) ==
    /\ in.ttl = Null \/ (/\ in.ttl[1] /= <<>>
                         /\ \A i \in 1..Len(in.ttl[1]) : in.ttl[1][i] \in Digits
                         /\ \E i \in 1..Len(in.ttl[1]) : in.ttl[1][i] /= "0")
    /\ in.password = <<>> \/ Len(in.password) >= MinPasswordLen

ShareValid(in) ==
    /\ in.ttl = Null \/ (in.ttl[1] /= <<>> /\ \A i \in 1..Len(in.ttl[1]) : in.ttl[1][i] \in Digits)
    /\ in.password = <<>> \/ Len(in.password) >= MinPasswordLen

\* createShareLinkSchema: ttl .transform(Number).optional()
ParseTtl(ttl) == IF ttl = Null THEN Null ELSE Some(ToNumber(ttl[1]))

\* faulty variant: the default taken only for an absent ttl (ttl ?? DEFAULT_TTL)
TtlSecondsIfAbsent(ttl) == IF ttl /= Null THEN ttl[1] ELSE DEFAULT_TTL

\* ttl || DEFAULT_TTL
TtlSeconds(ttl) == IF ttl /= Null /\ ttl[1] /= 0 THEN ttl[1] ELSE DEFAULT_TTL

\* POST /files/:id/share up to the await on shareLinkRepo.save, as long as fewer
\* than cap links have been created or are being created
ShareFindUpTo(s, cred, id, body, token, cap) ==
    LET a == authenticateAPIKey(cred)
        file == FindById(files, id)
        in == [id |-> id, ttl |-> body.ttl, password |-> body.password]
        ttlSeconds == TtlSeconds(ParseTtl(body.ttl))
    IN /\ Free(s)
       /\ nextLinkId + InFlight("share") <= cap
       /\ token \in generateShareToken
       /\ IF ~a.ok THEN Respond(s, "share", 0, in, Null, a.resp)
          ELSE IF ~ShareValid(body) THEN Respond(s, "share", a.id, in, Null, Error(400, "validation"))
          ELSE IF file = Null THEN Respond(s, "share", a.id, in, Null, Error(404, "File not found"))
          ELSE IF ~OwnsFile(a.id, file[1])
          THEN Respond(s, "share", a.id, in, Null,
                       Error(403, "Access denied. This file belongs to another user."))
          ELSE Await(s, "share", a.id, in, "save",
                     [token |-> token, ttlSeconds |-> ttlSeconds,
                      expiresAt |-> now + ttlSeconds * 1000,
                      password |-> IF body.password /= <<>> THEN BcryptHash(body.password) ELSE Null])
       /\ UNCHANGED <<now, stores, revoked>>

\* POST /files/:id/share up to the await on shareLinkRepo.save
ShareFind(s, cred, id, body, token) == ShareFindUpTo(s, cred, id, body, token, MaxLinks)

\* faulty variant: the insert made without the foreign key on fileId
ShareSaveNoForeignKey(s) ==
    LET r == reqs[s]
        row == ShareLinkRow(nextLinkId, r.loc.token, r.in.id, r.loc.expiresAt, r.loc.password)
    IN /\ r.kind = "share" /\ r.pc = "save"
       /\ IF FindByToken(shareLinks, r.loc.token) /= Null
          THEN /\ Respond(s, "share", r.user, r.in, Null, Error(500, "Failed to create share link"))
               /\ UNCHANGED <<shareLinks, nextLinkId>>
          ELSE /\ shareLinks' = Insert(shareLinks, row)
               /\ nextLinkId' = nextLinkId + 1
               /\ Respond(s, "share", r.user, r.in, Null,
                          [status |-> 201, token |-> r.loc.token, expiresAt |-> r.loc.expiresAt,
                           hasPassword |-> (r.in.password /= <<>>), ttl |-> r.loc.ttlSeconds])
       /\ UNCHANGED <<now, apiKeys, files, objects, nextFileId, revoked>>

\* faulty variant: the insert made without the unique index on token
ShareSaveNoUnique(s) ==
    LET r == reqs[s]
        row == ShareLinkRow(nextLinkId, r.loc.token, r.in.id, r.loc.expiresAt, r.loc.password)
    IN /\ r.kind = "share" /\ r.pc = "save"
       /\ IF r.in.id \notin DOMAIN files
          THEN /\ Respond(s, "share", r.user, r.in, Null, Error(500, "Failed to create share link"))
               /\ UNCHANGED <<shareLinks, nextLinkId>>
          ELSE /\ shareLinks' = Insert(shareLinks, row)
               /\ nextLinkId' = nextLinkId + 1
               /\ Respond(s, "share", r.user, r.in, Null,
                          [status |-> 201, token |-> r.loc.token, expiresAt |-> r.loc.expiresAt,
                           hasPassword |-> (r.in.password /= <<>>), ttl |-> r.loc.ttlSeconds])
       /\ UNCHANGED <<now, apiKeys, files, objects, nextFileId, revoked>>

\* POST /files/:id/share: shareLinkRepo.save(shareLink) and the 201 response;
\* the insert fails on a token already stored (unique column) and on a fileId
\* with no files row (foreign key)
ShareSave(s) ==
    LET r == reqs[s]
        row == ShareLinkRow(nextLinkId, r.loc.token, r.in.id, r.loc.expiresAt, r.loc.password)
    IN /\ r.kind = "share" /\ r.pc = "save"
       /\ IF r.in.id \notin DOMAIN files \/ FindByToken(shareLinks, r.loc.token) /= Null
          THEN /\ Respond(s, "share", r.user, r.in, Null, Error(500, "Failed to create share link"))
               /\ UNCHANGED <<shareLinks, nextLinkId>>
          ELSE /\ shareLinks' = Insert(shareLinks, row)
               /\ nextLinkId' = nextLinkId + 1
               /\ Respond(s, "share", r.user, r.in, Null,
                          [status |-> 201, token |-> r.loc.token, expiresAt |-> r.loc.expiresAt,
                           hasPassword |-> (r.in.password /= <<>>), ttl |-> r.loc.ttlSeconds])
       /\ UNCHANGED <<now, apiKeys, files, objects, nextFileId, revoked>>

(***************************** share listing *******************************)
\* GET /files/:id/shares up to the await on shareLinkRepo.find
SharesFind(s, cred, id) ==
    LET a == authenticateAPIKey(cred)
        file == FindById(files, id)
        in == [id |-> id]
    IN /\ Free(s)
       /\ IF ~a.ok THEN Respond(s, "shares", 0, in, Null, a.resp)
          ELSE IF file = Null THEN Respond(s, "shares", a.id, in, Null, Error(404, "File not found"))
          ELSE IF ~OwnsFile(a.id, file[1])
          THEN Respond(s, "shares", a.id, in, Null,
                       Error(403, "Access denied. This file belongs to another user."))
          ELSE Await(s, "shares", a.id, in, "links", Null)
       /\ UNCHANGED <<now, stores, revoked>>

\* GET /files/:id/shares from the share links read to the response
SharesLinks(s) ==
    LET r == reqs[s]
    IN /\ r.kind = "shares" /\ r.pc = "links"
       /\ Respond(s, "shares", r.user, r.in, Null,
                  [status |-> 200, shares |-> {LinkView(l) : l \in ActiveLinks({r.in.id}, now)}])
       /\ UNCHANGED <<now, stores, revoked>>

(***************************** share access gate ***************************)
\* path tokens the model sends: the tokens the issuer can mint and one
\* without the prefix
MalformedToken == <<"s", "h", "a", "r", "e", "a">>
RequestTokens == generateShareToken \cup {MalformedToken}

\* passwords a public access may carry (empty: none)
AccessPasswords == {<<>>, <<"a", "b", "c", "d">>, <<"w", "x", "y", "z">>}

\* faulty variant: a schema that accepts every token
TokenValidAny(token) == TRUE

\* accessShareLinkSchema and deleteShareLinkSchema: token startsWith 'share_'
TokenValid(token) == StartsWith(token, SharePrefix)

\* new Date() > shareLink.expiresAt
Expired(t, expiresAt) == t > expiresAt

\* GET /share/:token up to the loaded link: validation, findOne with the file
\* relation, and the not-found check; startedAfter notes the tokens whose
\* revocation had been answered when the request began
AccessFind(s, token, password) ==
    LET in == [token |-> token, password |-> password, startedAfter |-> revoked]
        found == FindByToken(shareLinks, token)
    IN /\ Free(s)
       /\ found /= Null => found[1].accessCount < MaxCount
       /\ IF ~TokenValid(token)
          THEN Respond(s, "access", 0, in, Null, Error(400, "Invalid share token format"))
          ELSE IF found = Null
          THEN Respond(s, "access", 0, in, Null, Error(404, "Share link not found"))
          ELSE Await(s, "access", 0, in, "check",
                     [shareLink |-> found[1], file |-> files[found[1].fileId], compared |-> FALSE])
       /\ UNCHANGED <<now, stores, revoked>>

\* the checks of GET /share/:token on a loaded link, in the handler's order:
\* the outcome, and whether bcrypt.compare was called on the way
Gate(link, password, t) ==
    IF ~link.isActive THEN [outcome |-> "Revoked", compared |-> FALSE]
    ELSE IF Expired(t, link.expiresAt) THEN [outcome |-> "Expired", compared |-> FALSE]
    ELSE IF link.password /= Null /\ password = <<>>
    THEN [outcome |-> "PasswordRequired", compared |-> FALSE]
    ELSE IF link.password /= Null /\ ~BcryptCompare(password, link.password)
    THEN [outcome |-> "InvalidPassword", compared |-> TRUE]
    ELSE [outcome |-> "Grant", compared |-> link.password /= Null]

\* the response of each failing check
GateError(outcome) ==
    CASE outcome = "Revoked" -> Error(403, "Share link has been revoked")
      [] outcome = "Expired" -> Error(410, "Share link has expired")
      [] outcome = "PasswordRequired" ->
            [status |-> 401, error |-> "Password required", requiresPassword |-> TRUE]
      [] outcome = "InvalidPassword" -> Error(401, "Invalid password")

\* faulty variant: the increment written before the checks
AccessCheckCountsFirst(s) ==
    LET r == reqs[s]
        g == Gate(r.loc.shareLink, r.in.password, now)
        counted == [r.loc.shareLink EXCEPT !.accessCount = @ + 1]
        loc == [r.loc EXCEPT !.compared = g.compared, !.shareLink = counted]
    IN /\ r.kind = "access" /\ r.pc = "check"
       /\ counted.id \in DOMAIN shareLinks
       /\ shareLinks' = [shareLinks EXCEPT ![counted.id] = counted]
       /\ IF g.outcome /= "Grant"
          THEN Respond(s, "access", 0, r.in, loc, GateError(g.outcome))
          ELSE Await(s, "access", 0, r.in, "save", loc)
       /\ UNCHANGED <<now, apiKeys, files, objects, nextFileId, nextLinkId, revoked>>

\* faulty variant: a granted access counted twice
AccessCheckCountsTwice(s) ==
    LET r == reqs[s]
        g == Gate(r.loc.shareLink, r.in.password, now)
        loc == [r.loc EXCEPT !.compared = g.compared]
    IN /\ r.kind = "access" /\ r.pc = "check"
       /\ IF g.outcome /= "Grant"
          THEN Respond(s, "access", 0, r.in, loc, GateError(g.outcome))
          ELSE Await(s, "access", 0, r.in, "save",
                     [loc EXCEPT !.shareLink = [@ EXCEPT !.accessCount = @ + 2]])
       /\ UNCHANGED <<now, stores, revoked>>

\* faulty variant: a granted access that goes back to the checks
AccessCheckAgain(s) ==
    LET r == reqs[s]
        g == Gate(r.loc.shareLink, r.in.password, now)
        loc == [r.loc EXCEPT !.compared = g.compared]
    IN /\ r.kind = "access" /\ r.pc = "check"
       /\ IF g.outcome /= "Grant"
          THEN Respond(s, "access", 0, r.in, loc, GateError(g.outcome))
          ELSE Await(s, "access", 0, r.in, "check", r.loc)
       /\ UNCHANGED <<now, stores, revoked>>

\* GET /share/:token from the loaded link to the await on shareLinkRepo.save:
\* the gate and the increment
AccessCheck(s) ==
    LET r == reqs[s]
        g == Gate(r.loc.shareLink, r.in.password, now)
        loc == [r.loc EXCEPT !.compared = g.compared]
    IN /\ r.kind = "access" /\ r.pc = "check"
       /\ IF g.outcome /= "Grant"
          THEN Respond(s, "access", 0, r.in, loc, GateError(g.outcome))
          ELSE Await(s, "access", 0, r.in, "save",
                     [loc EXCEPT !.shareLink = [@ EXCEPT !.accessCount = @ + 1]])
       /\ UNCHANGED <<now, stores, revoked>>

\* faulty variant: the increment is written only when the URL was signed
AccessSaveAfterSigning(s, signed) ==
    LET r == reqs[s]
        link == r.loc.shareLink
        file == r.loc.file
    IN /\ r.kind = "access" /\ r.pc = "save"
       /\ IF link.id \notin DOMAIN shareLinks
          THEN /\ Respond(s, "access", 0, r.in, r.loc, Error(500, "Failed to access share link"))
               /\ UNCHANGED shareLinks
          ELSE IF signed
               THEN /\ shareLinks' = SaveExisting(shareLinks, link)
                    /\ Respond(s, "access", 0, r.in, r.loc,
                               [status |-> 200,
                                file |-> [id |-> file.id, name |-> file.name, mime |-> file.mime,
                                          size |-> file.size, createdAt |-> file.createdAt],
                                downloadUrl |-> DownloadUrl(file.key),
                                expiresAt |-> link.expiresAt,
                                accessCount |-> link.accessCount])
               ELSE /\ Respond(s, "access", 0, r.in, r.loc, Error(500, "Failed to access share link"))
                    /\ UNCHANGED shareLinks
       /\ UNCHANGED <<now, apiKeys, files, objects, nextFileId, nextLinkId, revoked>>

\* GET /share/:token: shareLinkRepo.save(shareLink), getDownloadUrl and the
\* response.  A link whose row is gone went with its file (cascade), so the
\* save is an insert that fails on the foreign key.
AccessSave(s, signed) ==
    LET r == reqs[s]
        link == r.loc.shareLink
        file == r.loc.file
    IN /\ r.kind = "access" /\ r.pc = "save"
       /\ IF link.id \notin DOMAIN shareLinks
          THEN /\ Respond(s, "access", 0, r.in, r.loc, Error(500, "Failed to access share link"))
               /\ UNCHANGED shareLinks
          ELSE /\ shareLinks' = SaveExisting(shareLinks, link)
               /\ IF signed
                  THEN Respond(s, "access", 0, r.in, r.loc,
                               [status |-> 200,
                                file |-> [id |-> file.id, name |-> file.name, mime |-> file.mime,
                                          size |-> file.size, createdAt |-> file.createdAt],
                                downloadUrl |-> DownloadUrl(file.key),
                                expiresAt |-> link.expiresAt,
                                accessCount |-> link.accessCount])
                  ELSE Respond(s, "access", 0, r.in, r.loc, Error(500, "Failed to access share link"))
       /\ UNCHANGED <<now, apiKeys, files, objects, nextFileId, nextLinkId, revoked>>

\* GET /share/:token when shareLinkRepo.save(shareLink) throws: the catch block
\* answers 500, the count stays as stored and no download URL is asked for
AccessSaveFailed(s) ==
    LET r == reqs[s]
    IN /\ r.kind = "access" /\ r.pc = "save"
       /\ Respond(s, "access", 0, r.in, r.loc, Error(500, "Failed to access share link"))
       /\ UNCHANGED <<now, stores, revoked>>

(***************************** revocation **********************************)
\* faulty variant: the route mounted without the middleware
RevokeFindPublic(s, cred, token) ==
    LET in == [token |-> token]
        found == FindByToken(shareLinks, token)
    IN /\ Free(s)
       /\ IF ~TokenValid(token)
          THEN Respond(s, "revoke", 0, in, Null, Error(400, "Invalid share token format"))
          ELSE IF found = Null
          THEN Respond(s, "revoke", 0, in, Null, Error(404, "Share link not found"))
          ELSE Await(s, "revoke", 0, in, "save",
                     [shareLink |-> [found[1] EXCEPT !.isActive = FALSE]])
       /\ UNCHANGED <<now, stores, revoked>>

\* DELETE /share/:token up to the await on shareLinkRepo.save
RevokeFind(s, cred, token) ==
    LET a == authenticateAPIKey(cred)
        in == [token |-> token]
        found == FindByToken(shareLinks, token)
    IN /\ Free(s)
       /\ IF ~a.ok THEN Respond(s, "revoke", 0, in, Null, a.resp)
          ELSE IF ~TokenValid(token)
          THEN Respond(s, "revoke", a.id, in, Null, Error(400, "Invalid share token format"))
          ELSE IF found = Null
          THEN Respond(s, "revoke", a.id, in, Null, Error(404, "Share link not found"))
          ELSE Await(s, "revoke", a.id, in, "save",
                     [shareLink |-> [found[1] EXCEPT !.isActive = FALSE]])
       /\ UNCHANGED <<now, stores, revoked>>

\* DELETE /share/:token: shareLinkRepo.save(shareLink) and the response
RevokeSave(s) ==
    LET r == reqs[s]
        link == r.loc.shareLink
    IN /\ r.kind = "revoke" /\ r.pc = "save"
       /\ IF link.id \notin DOMAIN shareLinks
          THEN /\ Respond(s, "revoke", r.user, r.in, r.loc, Error(500, "Failed to revoke share link"))
               /\ UNCHANGED <<shareLinks, revoked>>
          ELSE /\ shareLinks' = SaveExisting(shareLinks, link)
               /\ revoked' = revoked \cup {r.in.token}
               /\ Respond(s, "revoke", r.user, r.in, r.loc,
                          [status |-> 200, message |-> "Share link revoked successfully"])
       /\ UNCHANGED <<now, apiKeys, files, objects, nextFileId, nextLinkId>>

(***************************** query filter builder ************************)
\* TypeORM find operators
Like(pattern) == Some([op |-> "like", a |-> pattern, b |-> 0])
Equal(v) == Some([op |-> "eq", a |-> v, b |-> 0])
Between(lo, hi) == Some([op |-> "between", a |-> lo, b |-> hi])
MoreThanOrEqual(lo) == Some([op |-> "gte", a |-> lo, b |-> 0])
LessThanOrEqual(hi) == Some([op |-> "lte", a |-> hi, b |-> 0])

\* whether a column value satisfies one where-condition (Null: no condition);
\* a NULL column satisfies no LIKE
Satisfies(v, cond) ==
    \/ cond = Null
    \/ /\ cond /= Null
       /\ LET c == cond[1]
          IN CASE c.op = "like" -> v /= Null /\ LikeMatch(v, c.a)
               [] c.op = "eq" -> v = c.a
               [] c.op = "between" -> c.a <= v /\ v <= c.b
               [] c.op = "gte" -> v >= c.a
               [] c.op = "lte" -> v <= c.a

\* query strings of GET /files after listFilesQuerySchema: absent strings are
\* empty, absent numbers and dates Null; page and limit carry their defaults
DefaultPage == 1
DefaultLimit == 50
NoFilter ==
    [search |-> <<>>, searchPath |-> <<>>, mime |-> "", minSize |-> Null, maxSize |-> Null,
     dateFrom |-> Null, dateTo |-> Null, page |-> DefaultPage, limit |-> DefaultLimit]
ListQueries ==
    { [NoFilter EXCEPT !.search = sr, !.minSize = mn, !.page = pg, !.limit = lm] :
        sr \in {<<>>, <<"%">>}, mn \in {Null, Some(2)}, pg \in {DefaultPage, 2},
        lm \in {1, DefaultLimit} }
    \cup { [NoFilter EXCEPT !.searchPath = <<"a">>], [NoFilter EXCEPT !.mime = "image/png"],
           [NoFilter EXCEPT !.minSize = Some(1), !.maxSize = Some(2)],
           [NoFilter EXCEPT !.maxSize = Some(2)],
           [NoFilter EXCEPT !.dateFrom = Some(TickMs)], [NoFilter EXCEPT !.dateTo = Some(0)],
           [NoFilter EXCEPT !.dateFrom = Some(0), !.dateTo = Some(0)] }

\* faulty variant: the key pattern without the separator
WhereNoSlash(userId, q) ==
    [key |-> Like(Decimal(userId) \o <<"%">>),
     name |-> IF q.search /= <<>> THEN Like(<<"%">> \o q.search \o <<"%">>) ELSE Null,
     path |-> IF q.searchPath /= <<>> THEN Like(<<"%">> \o q.searchPath \o <<"%">>) ELSE Null,
     mime |-> IF q.mime /= "" THEN Equal(q.mime) ELSE Null,
     size |-> IF q.minSize /= Null /\ q.maxSize /= Null THEN Between(q.minSize[1], q.maxSize[1])
              ELSE IF q.minSize /= Null THEN MoreThanOrEqual(q.minSize[1])
              ELSE IF q.maxSize /= Null THEN LessThanOrEqual(q.maxSize[1])
              ELSE Null,
     createdAt |-> IF q.dateFrom /= Null /\ q.dateTo /= Null
                   THEN Between(q.dateFrom[1], q.dateTo[1])
                   ELSE IF q.dateFrom /= Null THEN MoreThanOrEqual(q.dateFrom[1])
                   ELSE IF q.dateTo /= Null THEN LessThanOrEqual(q.dateTo[1])
                   ELSE Null]

\* the where object GET /files builds
Where(userId, q) ==
    [key |-> Like(Decimal(userId) \o <<"/", "%">>),
     name |-> IF q.search /= <<>> THEN Like(<<"%">> \o q.search \o <<"%">>) ELSE Null,
     path |-> IF q.searchPath /= <<>> THEN Like(<<"%">> \o q.searchPath \o <<"%">>) ELSE Null,
     mime |-> IF q.mime /= "" THEN Equal(q.mime) ELSE Null,
     size |-> IF q.minSize /= Null /\ q.maxSize /= Null THEN Between(q.minSize[1], q.maxSize[1])
              ELSE IF q.minSize /= Null THEN MoreThanOrEqual(q.minSize[1])
              ELSE IF q.maxSize /= Null THEN LessThanOrEqual(q.maxSize[1])
              ELSE Null,
     createdAt |-> IF q.dateFrom /= Null /\ q.dateTo /= Null
                   THEN Between(q.dateFrom[1], q.dateTo[1])
                   ELSE IF q.dateFrom /= Null THEN MoreThanOrEqual(q.dateFrom[1])
                   ELSE IF q.dateTo /= Null THEN LessThanOrEqual(q.dateTo[1])
                   ELSE Null]

\* the ids of the files rows a where object selects
Selected(where) ==
    {i \in DOMAIN files :
        /\ Satisfies(files[i].key, where.key)
        /\ Satisfies(files[i].name, where.name)
        /\ Satisfies(files[i].path, where.path)
        /\ Satisfies(files[i].mime, where.mime)
        /\ Satisfies(files[i].size, where.size)
        /\ Satisfies(files[i].createdAt, where.createdAt)}

RECURSIVE Perms(_)
Perms(S) == IF S = {} THEN {<<>>} ELSE UNION {{<<x>> \o p : p \in Perms(S \ {x})} : x \in S}

\* order: {createdAt: 'DESC'}: the orders the store may return the selected rows
\* in (rows created in the same millisecond come in either order)
Orderings(ids) ==
    {p \in Perms(ids) : \A i \in 1..(Len(p) - 1) : files[p[i]].createdAt >= files[p[i + 1]].createdAt}

\* faulty variant: the offset is ignored
PageNoSkip(ordered, skip, take) ==
    SubSeq(ordered, 1, IF take < Len(ordered) THEN take ELSE Len(ordered))

\* skip and take of an ordered result (OFFSET skip, LIMIT take; SQLite reads a
\* negative OFFSET as 0)
Page(ordered, skip, take) ==
    LET from == IF skip < 0 THEN 0 ELSE skip
    IN SubSeq(ordered, from + 1, IF from + take < Len(ordered) THEN from + take ELSE Len(ordered))

\* the LIMIT a take stands for: a take of 0 is LIMIT 0 or, where the query
\* builder drops a falsy take, no LIMIT at all
Takes(take, rows) == IF take = 0 THEN {0, rows} ELSE {take}

\* GET /files up to the await on fileRepo.find: the where object is built and
\* fileRepo.count({where}) answered
ListCount(s, cred, q) ==
    LET a == authenticateAPIKey(cred)
        where == Where(a.id, q)
    IN /\ Free(s)
       /\ IF ~a.ok THEN Respond(s, "list", 0, q, Null, a.resp)
          ELSE Await(s, "list", a.id, q, "find",
                     [where |-> where, total |-> Cardinality(Selected(where))])
       /\ UNCHANGED <<now, stores, revoked>>

\* GET /files: fileRepo.find answered with one page, shareLinkRepo.find awaited
ListFind(s) ==
    LET r == reqs[s]
    IN /\ r.kind = "list" /\ r.pc = "find"
       /\ \E ordered \in Orderings(Selected(r.loc.where)) :
          \E take \in Takes(r.in.limit, Len(ordered)) :
             LET page == Page(ordered, (r.in.page - 1) * r.in.limit, take)
             IN Await(s, "list", r.user, r.in, "links",
                      [total |-> r.loc.total, files |-> [i \in DOMAIN page |-> files[page[i]]]])
       /\ UNCHANGED <<now, stores, revoked>>

\* Math.ceil(total / limit): a division by 0 gives Infinity, 0 / 0 gives NaN
CeilDiv(total, limit) ==
    IF limit = 0 THEN (IF total = 0 THEN "NaN" ELSE "Infinity")
    ELSE (total + limit - 1) \div limit

\* GET /files: the share links of the page answered, and the response
ListRespond(s) ==
    LET r == reqs[s]
        page == r.loc.files
        links == ActiveLinks({page[i].id : i \in DOMAIN page}, now)
    IN /\ r.kind = "list" /\ r.pc = "links"
       /\ Respond(s, "list", r.user, r.in, Null,
                  [status |-> 200,
                   files |-> [i \in DOMAIN page |-> FileView(page[i], links)],
                   pagination |-> [page |-> r.in.page, limit |-> r.in.limit, total |-> r.loc.total,
                                   totalPages |-> CeilDiv(r.loc.total, r.in.limit)]])
       /\ UNCHANGED <<now, stores, revoked>>

(***************************** clock ***************************************)
Tick ==
    /\ now < MaxTicks * TickMs
    /\ now' = now + TickMs
    /\ out' = NoOut
    /\ UNCHANGED <<stores, reqs, revoked>>

(***************************** specification *******************************)
\* the service as it starts: keys issued, nothing stored
Init ==
    /\ now = 0
    /\ apiKeys = InitialKeys
    /\ files = EmptyTable
    /\ shareLinks = EmptyTable
    /\ objects = {}
    /\ nextFileId = 1
    /\ nextLinkId = 1
    /\ reqs = [s \in Slots |-> Idle]
    /\ out = NoOut
    /\ revoked = {}

\* ids a by-id request may name
FileIds == 1..MaxFiles

\* the requests of the files router, for slots S
Uploads(S) ==
    \/ \E s \in S, cred \in Credentials, in \in UploadInputs, stored \in StorageOutcomes :
          UploadPut(s, cred, in, stored)
    \/ \E s \in S : UploadRecord(s)

Lists(S, Q) ==
    \/ \E s \in S, cred \in Credentials, q \in Q : ListCount(s, cred, q)
    \/ \E s \in S : ListFind(s)
    \/ \E s \in S : ListRespond(s)

Details(S) ==
    \/ \E s \in S, cred \in Credentials, id \in FileIds, signed \in StorageOutcomes :
          DetailFind(s, cred, id, signed)
    \/ \E s \in S : DetailLinks(s)

Deletes(S) ==
    \/ \E s \in S, cred \in Credentials, id \in FileIds : DeleteFind(s, cred, id)
    \/ \E s \in S, deleted \in StorageOutcomes : DeleteObject(s, deleted)
    \/ \E s \in S : DeleteRecord(s)

ShareLists(S) ==
    \/ \E s \in S, cred \in Credentials, id \in FileIds : SharesFind(s, cred, id)
    \/ \E s \in S : SharesLinks(s)

\* share creation, the generator drawing from T
ShareIssuer(S, T) ==
    \/ \E s \in S, cred \in Credentials, id \in FileIds, body \in ShareInputs, token \in T :
          ShareFind(s, cred, id, body, token)
    \/ \E s \in S : ShareSave(s)

\* the requests of the share router
Accesses(S) ==
    \/ \E s \in S, token \in RequestTokens, password \in AccessPasswords :
          AccessFind(s, token, password)
    \/ \E s \in S : AccessCheck(s)
    \/ \E s \in S, signed \in StorageOutcomes : AccessSave(s, signed)

Revocations(S) ==
    \/ \E s \in S, cred \in Credentials, token \in RequestTokens : RevokeFind(s, cred, token)
    \/ \E s \in S : RevokeSave(s)

Next ==
    \/ Tick
    \/ Uploads(Slots) \/ Lists(Slots, ListQueries) \/ Details(Slots) \/ Deletes(Slots)
    \/ ShareLists(Slots) \/ ShareIssuer(Slots, generateShareToken)
    \/ Accesses(Slots) \/ Revocations(Slots)

\* the whole service, any two requests in flight together
Spec == Init /\ [][Next]_vars

\* the row an upload of tenant userId at time t stores under id
UploadedRow(id, userId, in, t) ==
    FileRow(id, in.file[1].originalname,
            StorageKey(userId, normalizePath(in.path).path, t, in.file[1].originalname),
            normalizePath(in.path).path, in.file[1].mimetype, in.file[1].size, t)

\* the share link a creation by the file's owner at time t stores under id
IssuedRow(id, fileId, body, token, t) ==
    ShareLinkRow(id, token, fileId, t + TtlSeconds(ParseTtl(body.ttl)) * 1000,
                 IF body.password /= <<>> THEN BcryptHash(body.password) ELSE Null)

\* the uploads that pass validation
ValidUploads == {in \in UploadInputs : in.file /= Null /\ normalizePath(in.path).ok}

\* the tenants that hold an active key
Tenants == {k.id : k \in {j \in InitialKeys : j.isActive}}

\* the files tables MaxFiles uploads leave, each by either tenant, at time 0 or
\* one tick later, in the order of their ids
UploadedTables ==
    { [i \in 1..MaxFiles |-> UploadedRow(i, u[i], in[i], t[i])] :
        u \in [1..MaxFiles -> Tenants], in \in [1..MaxFiles -> ValidUploads],
        t \in {f \in [1..MaxFiles -> {0, TickMs}] : \A i \in 1..(MaxFiles - 1) : f[i] <= f[i + 1]} }

\* the state after the uploads that left one of these tables, one tick after
\* the service started
InitUploaded(tables) ==
    /\ now = TickMs
    /\ apiKeys = InitialKeys
    /\ files \in tables
    /\ objects = {files[i].key : i \in DOMAIN files}
    /\ shareLinks = EmptyTable
    /\ nextFileId = MaxFiles + 1
    /\ nextLinkId = 1
    /\ reqs = [s \in Slots |-> Idle]
    /\ out = NoOut
    /\ revoked = {}

InitFiles == InitUploaded(UploadedTables)

\* the same, every upload made at time 0 and carrying the same file and path
InitById ==
    InitUploaded({tb \in UploadedTables :
                     \A i \in DOMAIN tb : tb[i].createdAt = 0 /\ tb[i].name = tb[1].name})

\* the by-id requests of the files router on those files, one request at a time,
\* within one millisecond
NextFiles ==
    \/ Details({"r1"}) \/ Deletes({"r1"}) \/ ShareLists({"r1"})
    \/ ShareIssuer({"r1"}, {SharePrefix \o <<"a">>})
SpecFiles == InitById /\ [][NextFiles]_vars

\* listings of those files, one request at a time
NextList == Lists({"r1"}, ListQueries)
SpecList == InitFiles /\ [][NextList]_vars

FirstUpload == CHOOSE in \in UploadInputs : in.file /= Null /\ in.path = Null

\* the state after tenant 1 has uploaded one file at time 0 and shared it
InitGate ==
    /\ now = 0
    /\ apiKeys = InitialKeys
    /\ files = Insert(EmptyTable, UploadedRow(1, 1, FirstUpload, 0))
    /\ objects = {UploadedRow(1, 1, FirstUpload, 0).key}
    /\ \E body \in {b \in ShareInputs : ShareValid(b)} :
          shareLinks = Insert(EmptyTable, IssuedRow(1, 1, body, SharePrefix \o <<"a">>, 0))
    /\ nextFileId = 2
    /\ nextLinkId = 2
    /\ reqs = [s \in Slots |-> Idle]
    /\ out = NoOut
    /\ revoked = {}

\* public access and revocation of that link, any two requests in flight together
NextGate == Tick \/ Accesses(Slots) \/ Revocations(Slots)
SpecGate == InitGate /\ [][NextGate]_vars

\* public accesses of that link and the owner's views of it, one request at a
\* time
NextSeq ==
    \/ Tick
    \/ Accesses({"r1"})
    \/ Lists({"r1"}, {NoFilter}) \/ Details({"r1"}) \/ ShareLists({"r1"})
SpecSeq == InitGate /\ [][NextSeq]_vars

(***************************** properties **********************************)
\* the kinds of request that name a file by its id
ByIdKinds == {"detail", "delete", "share", "shares"}

\* the storage-key prefix of a tenant
TenantPrefix(t) == Decimal(t) \o <<"/">>

\* the step sends the response of a by-id request of tenant B for a stored file
\* of another tenant
ForeignById ==
    /\ out'.kind \in ByIdKinds
    /\ out'.user \in Tenants
    /\ out'.in.id \in DOMAIN files
    /\ \E A \in Tenants \ {out'.user} : StartsWith(files[out'.in.id].key, TenantPrefix(A))

\* the body of a share creation fails createShareLinkSchema: a password
\* shorter than the minimum, or a ttl that is not a string of digits
BodyRejected(o) ==
    /\ o.kind = "share"
    /\ \/ o.in.password /= <<>> /\ Len(o.in.password) < MinPasswordLen
       \/ o.in.ttl /= Null /\ \E i \in 1..Len(o.in.ttl[1]) :
                                  o.in.ttl[1][i] \notin {"0", "1", "2", "3", "4", "5", "6", "7", "8", "9"}

\* C1: a by-id request (details, delete, create share link, list share links)
\* of tenant B for a file whose key starts with "A/", A /= B, is answered 403,
\* or 400 when it is a share creation whose body fails validation; the answer
\* holds nothing but the error, and the object store, the files and the share
\* links stay as they were; a by-id request is answered 404 only when no file
\* has that id
TenantIsolation ==
    [][ /\ ForeignById =>
            /\ out'.resp.status = IF BodyRejected(out') THEN 400 ELSE 403
            /\ DOMAIN out'.resp = {"status", "error"}
            /\ UNCHANGED <<objects, files, shareLinks>>
        /\ (out'.kind \in ByIdKinds /\ out'.resp.status = 404) => out'.in.id \notin DOMAIN files
      ]_vars

\* C1 as stated: every such request is answered 403
TenantIsolationAlways403 ==
    [][ ForeignById =>
            /\ out'.resp.status = 403
            /\ DOMAIN out'.resp = {"status", "error"}
            /\ UNCHANGED <<objects, files, shareLinks>>
      ]_vars

\* tenant 1 was refused a file of tenant 11, whose key starts with "11/"
TenantIsolationWitness ==
    /\ out.kind \in ByIdKinds
    /\ out.user = 1
    /\ out.resp.status = 403
    /\ out.in.id \in DOMAIN files
    /\ StartsWith(files[out.in.id].key, <<"1", "1", "/">>)
    /\ objects = {files[i].key : i \in DOMAIN files}

\* the stored files of a tenant
FilesOf(t) == {i \in DOMAIN files : StartsWith(files[i].key, TenantPrefix(t))}

RevocationTerminal ==
    (out.kind = "access" /\ out.in.token \in out.in.startedAfter) => out.resp.status = 403

\* an access that started after the revocation was answered has been granted
RevocationUndone ==
    /\ out.kind = "access"
    /\ out.in.token \in out.in.startedAfter
    /\ out.resp.status = 200

\* C4: a stored share link whose isActive is false never has isActive true
\* again, whatever accesses and revocations of its token interleave
ActiveOneDirectional ==
    [][\A i \in DOMAIN shareLinks :
          (~shareLinks[i].isActive /\ i \in DOMAIN shareLinks') => ~shareLinks'[i].isActive]_vars

\* a link whose revocation was answered 200 is stored active
ActiveRestored ==
    \E i \in DOMAIN shareLinks : shareLinks[i].token \in revoked /\ shareLinks[i].isActive

\* the step runs the checks of the access in slot s on the link it loaded
Checks(s) == reqs[s].kind = "access" /\ reqs[s].pc = "check" /\ reqs'[s] /= reqs[s]

\* the access in slot s leaves the checks granted, on its way to the save
Granted(s) == reqs'[s].kind = "access" /\ reqs'[s].pc = "save"

\* C5: the checks of an access report a link that is revoked as Revoked (403)
\* also when it is expired, an active link that is expired (now >= expiresAt)
\* as Expired (410) also when it has a password and the right one is supplied,
\* and compare no password for a link that is revoked or expired
CheckPrecedence ==
    [][\A s \in Slots : Checks(s) =>
          LET link == reqs[s].loc.shareLink
          IN /\ ~link.isActive => (out'.resp.status = 403 /\ ~out'.loc.compared)
             /\ (link.isActive /\ now >= link.expiresAt) =>
                   (out'.resp.status = 410 /\ ~out'.loc.compared)]_vars

\* the checks are about to run, at the instant of expiry, on an active link
\* with a password, the right password supplied
CheckAtExpiryWithPassword ==
    \E s \in Slots :
        /\ reqs[s].kind = "access" /\ reqs[s].pc = "check"
        /\ reqs[s].loc.shareLink.isActive
        /\ reqs[s].loc.shareLink.expiresAt = now
        /\ reqs[s].loc.shareLink.password /= Null
        /\ reqs[s].loc.shareLink.password[1].of = reqs[s].in.password

\* C6: an access of an existing token gets past the revocation and expiry
\* checks exactly when the link is active and now < expiresAt; at
\* now = expiresAt it is answered Expired
UsableIff ==
    [][\A s \in Slots : Checks(s) =>
          LET link == reqs[s].loc.shareLink
          IN (out'.resp.status \notin {403, 410}) <=> (link.isActive /\ now < link.expiresAt)]_vars

\* an access has been granted while now = expiresAt
GrantedAtExpiry ==
    \E s \in Slots :
        /\ reqs[s].kind = "access" /\ reqs[s].pc = "save"
        /\ reqs[s].loc.shareLink.expiresAt = now
        /\ shareLinks[reqs[s].loc.shareLink.id].accessCount = 0
        /\ \A t \in Slots \ {s} : reqs[t].pc = "idle"

\* C7: when the checks run on an active link before its expiry: with a stored
\* hash and no password supplied the answer is 401 with requiresPassword true;
\* with a supplied password that is not the one the hash was made from, 401
\* without that flag; with the right password the access is granted; with no
\* stored hash it is granted whatever password is or is not supplied
PasswordGate ==
    [][\A s \in Slots : (Checks(s) /\ reqs[s].loc.shareLink.isActive
                                    /\ now < reqs[s].loc.shareLink.expiresAt) =>
          LET stored == reqs[s].loc.shareLink.password
              given == reqs[s].in.password
          IN /\ (stored /= Null /\ given = <<>>) =>
                    /\ out'.resp.status = 401
                    /\ "requiresPassword" \in DOMAIN out'.resp
                    /\ out'.resp.requiresPassword = TRUE
             /\ (stored /= Null /\ given /= <<>> /\ stored[1].of /= given) =>
                    /\ out'.resp.status = 401
                    /\ "requiresPassword" \notin DOMAIN out'.resp
             /\ (stored /= Null /\ stored[1].of = given) => Granted(s)
             /\ stored = Null => Granted(s)]_vars

\* a wrong password has just been refused while an access with the right
\* password stands granted
PasswordGateWitness ==
    /\ out.kind = "access" /\ out.resp = Error(401, "Invalid password")
    /\ out.in.password /= <<>>
    /\ \E s \in Slots :
          /\ reqs[s].kind = "access" /\ reqs[s].pc = "save"
          /\ reqs[s].loc.shareLink.password /= Null
          /\ reqs[s].loc.shareLink.password[1].of = reqs[s].in.password
          /\ now < reqs[s].loc.shareLink.expiresAt

\* the statuses of InvalidToken, NotFound, Revoked, Expired, PasswordRequired
\* and InvalidPassword
FailedGrant == {400, 404, 403, 410, 401}

\* C8: a public access answered InvalidToken, NotFound, Revoked, Expired,
\* PasswordRequired or InvalidPassword leaves every stored share link, its
\* accessCount included, and every other stored thing as it was: the step that
\* sends such an answer changes nothing stored, and neither does any step of an
\* access before its save, which is never answered that way
FailedGrantNeverCounts ==
    [][/\ (out'.kind = "access" /\ out'.resp.status \in FailedGrant) =>
             UNCHANGED <<shareLinks, files, objects, apiKeys>>
       /\ \A s \in Slots :
             /\ (reqs'[s] /= reqs[s] /\ "access" \in {reqs[s].kind, reqs'[s].kind}
                                     /\ reqs[s].pc /= "save") =>
                   UNCHANGED <<shareLinks, files, objects, apiKeys>>
             /\ (reqs'[s] /= reqs[s] /\ reqs[s].kind = "access" /\ reqs[s].pc = "save") =>
                   out'.resp.status \notin FailedGrant]_vars

\* an access of a link that has been counted before was refused after its
\* checks
FailedGrantWitness ==
    /\ out.kind = "access"
    /\ out.resp.status \in {403, 410, 401}
    /\ out.loc.shareLink.id \in DOMAIN shareLinks
    /\ shareLinks[out.loc.shareLink.id].accessCount >= 1

\* the owner's views of share links in a response: detail, shares and list
ShownLinks(o) ==
    CASE o.kind = "detail" -> o.resp.shareLinks
      [] o.kind = "shares" -> o.resp.shares
      [] o.kind = "list" -> UNION {o.resp.files[i].shareLinks : i \in DOMAIN o.resp.files}

\* the files an owner's view is about
ShownFiles(o) ==
    IF o.kind = "list" THEN {o.resp.files[i].file.id : i \in DOMAIN o.resp.files} ELSE {o.in.id}

\* every usable link of the viewed files is shown, and every link shown carries
\* the accessCount stored for its token
ViewsShowStoredCount ==
    (out.kind \in {"detail", "shares", "list"} /\ out.resp.status = 200) =>
        /\ \A v \in ShownLinks(out) : \E i \in DOMAIN shareLinks :
              shareLinks[i].token = v.token /\ shareLinks[i].accessCount = v.accessCount
        /\ \A i \in DOMAIN shareLinks :
              (shareLinks[i].fileId \in ShownFiles(out) /\ shareLinks[i].isActive
                                                         /\ now < shareLinks[i].expiresAt) =>
                  \E v \in ShownLinks(out) : v.token = shareLinks[i].token

\* C9: with accesses running one after another, each access answered 200 raises
\* the stored accessCount of its link by exactly one and reports the count after
\* the increment, no step but the save of an access changes a stored count, and
\* the owner's list, detail and shares responses show the stored count
SequentialCounting ==
    [][/\ \A i \in DOMAIN shareLinks :
             /\ i \in DOMAIN shareLinks'
             /\ IF out'.kind = "access" /\ out'.resp.status = 200 /\ out'.loc.shareLink.id = i
                THEN /\ shareLinks'[i].accessCount = shareLinks[i].accessCount + 1
                     /\ out'.resp.accessCount = shareLinks'[i].accessCount
                ELSE (out'.kind /= "access" \/ out'.resp.status \in FailedGrant) =>
                         shareLinks'[i].accessCount = shareLinks[i].accessCount
       /\ ViewsShowStoredCount']_vars

\* after two accesses, one after the other, the owner is shown the count 2
SequentialCountingWitness ==
    /\ out.kind \in {"detail", "shares", "list"}
    /\ out.resp.status = 200
    /\ \E v \in ShownLinks(out) : v.accessCount >= 2

\* C10: the stored accessCount of a share link is never lower than a value it
\* held before, whatever accesses and revocations of its token interleave
CountMonotonic ==
    [][\A i \in DOMAIN shareLinks :
          i \in DOMAIN shareLinks' => shareLinks'[i].accessCount >= shareLinks[i].accessCount]_vars

\* a revocation is about to save a link it read before an access was counted
StaleRevocation ==
    \E s \in Slots :
        /\ reqs[s].kind = "revoke" /\ reqs[s].pc = "save"
        /\ reqs[s].loc.shareLink.id \in DOMAIN shareLinks
        /\ reqs[s].loc.shareLink.accessCount < shareLinks[reqs[s].loc.shareLink.id].accessCount

\* a burst of public accesses of the link of InitGate: every access starts
\* before any of them has saved, so the granted ones all overlap
NextBurst ==
    \/ Tick
    \/ /\ \A i \in DOMAIN shareLinks : shareLinks[i].accessCount = 0
       /\ \E s \in Slots, token \in RequestTokens, password \in AccessPasswords :
             AccessFind(s, token, password)
    \/ \E s \in Slots : AccessCheck(s)
    \/ \E s \in Slots, signed \in StorageOutcomes : AccessSave(s, signed)
SpecBurst == InitGate /\ [][NextBurst]_vars

\* the accesses that have passed the checks and not yet saved
AtSave == {s \in Slots : reqs[s].kind = "access" /\ reqs[s].pc = "save"}

\* C11: when k accesses of one token pass the checks and run concurrently, from
\* a stored accessCount of 0, every save of one of them leaves the stored count
\* at least 1 and at most the number of accesses granted so far (those still
\* to save, the saving one, and one more when a save has been made before);
\* when all have finished the count is between 1 and the number of slots
ConcurrentCounting ==
    [][/\ \A s \in Slots :
             (reqs[s].kind = "access" /\ reqs[s].pc = "save" /\ reqs'[s] /= reqs[s]) =>
                LET i == reqs[s].loc.shareLink.id
                IN /\ shareLinks'[i].accessCount >= 1
                   /\ shareLinks'[i].accessCount <=
                         Cardinality(AtSave) + (IF shareLinks[i].accessCount > 0 THEN 1 ELSE 0)
       /\ (AtSave' = {} /\ AtSave /= {}) =>
             \A i \in DOMAIN shareLinks' :
                shareLinks'[i].accessCount \in 1..Cardinality(Slots)]_vars

\* two accesses were granted together, one has saved and the other is about
\* to save the same count
ConcurrentCountingWitness ==
    \E s \in Slots :
        /\ reqs[s].kind = "access" /\ reqs[s].pc = "save"
        /\ reqs[s].loc.shareLink.accessCount = 1
        /\ shareLinks[reqs[s].loc.shareLink.id].accessCount = 1

\* the response answers a share-router request whose token lacks the prefix
Malformed(o) ==
    o.kind \in {"access", "revoke"} /\ ~StartsWith(o.in.token, <<"s", "h", "a", "r", "e", "_">>)

\* the step answers a request as it arrives: no request is left suspended at
\* a repository or storage call, nothing was loaded, nothing stored changes
AnsweredAtOnce ==
    /\ reqs' = reqs
    /\ out'.loc = Null
    /\ UNCHANGED <<shareLinks, files, objects, apiKeys>>

\* C12: a public access whose token lacks the prefix "share_" is answered 400
\* as it arrives, whatever is stored; so is a revocation by a caller that the
\* identity resolver accepts, while a revocation without an accepted credential
\* is answered 401 by the resolver before the token is looked at
MalformedFailsFast ==
    [][Malformed(out') =>
          /\ AnsweredAtOnce
          /\ DOMAIN out'.resp = {"status", "error"}
          /\ IF out'.kind = "access" \/ out'.user \in Tenants
             THEN out'.resp = Error(400, "Invalid share token format")
             ELSE out'.resp.status = 401]_vars

\* C12 as stated: every access and every revocation with such a token is
\* answered 400
MalformedAlways400 ==
    Malformed(out) => out.resp.status = 400

\* a malformed token was refused while a share link was stored and another
\* request was suspended at its save
MalformedFailsFastWitness ==
    /\ Malformed(out)
    /\ out.kind = "revoke"
    /\ out.resp.status = 400
    /\ DOMAIN shareLinks /= {}
    /\ \E s \in Slots : reqs[s].pc = "save"

\* the state after tenant 1 has uploaded one file at time 0
InitOneFile ==
    /\ now = 0
    /\ apiKeys = InitialKeys
    /\ files = Insert(EmptyTable, UploadedRow(1, 1, FirstUpload, 0))
    /\ objects = {UploadedRow(1, 1, FirstUpload, 0).key}
    /\ shareLinks = EmptyTable
    /\ nextFileId = 2
    /\ nextLinkId = 1
    /\ reqs = [s \in Slots |-> Idle]
    /\ out = NoOut
    /\ revoked = {}

\* share creations for that file and for ids without a file, one request at a
\* time
NextShare == Tick \/ ShareIssuer({"r1"}, generateShareToken)
SpecShare == InitOneFile /\ [][NextShare]_vars

\* the TTL in seconds a share-creation request supplies (Null: none)
SuppliedTtl(in) == IF in.ttl = Null THEN Null ELSE Some(ToNumber(in.ttl[1]))

\* what a share creation does, for the effective TTL ttlOf assigns to a
\* request: the expiry is computed as now + ttl when the owner's request is
\* accepted; a 201 answer comes with exactly one new link, bound to the
\* requested file, with accessCount 0, isActive true, that expiry, a hash
\* exactly when a password was supplied, and reports the link's token and
\* expiry, the effective ttl and hasPassword; any other answer stores nothing
CreationStep(ttlOf(_)) ==
    /\ \A s \in Slots :
          (reqs[s].pc = "idle" /\ reqs'[s].kind = "share" /\ reqs'[s].pc = "save") =>
              /\ reqs'[s].loc.expiresAt = now + ttlOf(reqs'[s].in) * 1000
              /\ StartsWith(files[reqs'[s].in.id].key, TenantPrefix(reqs'[s].user))
    /\ (out'.kind = "share" /\ out'.resp.status = 201) =>
          \E i \in DOMAIN shareLinks' \ DOMAIN shareLinks :
              LET row == shareLinks'[i]
              IN /\ shareLinks' = Insert(shareLinks, row)
                 /\ row.fileId = out'.in.id
                 /\ row.accessCount = 0
                 /\ row.isActive
                 /\ \E s \in Slots : reqs[s].kind = "share" /\ reqs'[s].pc = "idle"
                                     /\ row.expiresAt = reqs[s].loc.expiresAt
                 /\ (row.password /= Null) <=> (out'.in.password /= <<>>)
                 /\ out'.resp.token = row.token
                 /\ out'.resp.expiresAt = row.expiresAt
                 /\ out'.resp.ttl = ttlOf(out'.in)
                 /\ out'.resp.hasPassword = (row.password /= Null)
    /\ (out'.kind = "share" /\ out'.resp.status /= 201) => shareLinks' = shareLinks

\* the supplied TTL, or 604800 when none or zero is supplied
EffectiveTtl(in) ==
    IF SuppliedTtl(in) = Null \/ SuppliedTtl(in) = Some(0) THEN 604800 ELSE SuppliedTtl(in)[1]

\* the supplied TTL, or 604800 when none is supplied
TtlAsSupplied(in) == IF SuppliedTtl(in) = Null THEN 604800 ELSE SuppliedTtl(in)[1]

NextOrphan == ShareIssuer(Slots, {SharePrefix \o <<"a">>}) \/ Deletes(Slots)
SpecOrphan == InitOneFile /\ [][NextOrphan]_vars

\* the step answers a share creation as it arrives, for an id that has no
\* file record
MissingFileRequest ==
    /\ out'.kind = "share"
    /\ reqs' = reqs
    /\ out'.user \in Tenants
    /\ out'.in.id \notin DOMAIN files

\* every stored share link refers to a stored file record
LinksHaveFiles == \A i \in DOMAIN shareLinks : shareLinks[i].fileId \in DOMAIN files

\* C14: a share creation with a valid body for a file id that has no record is
\* answered 404 as it arrives, no token generated and no link persisted (a body
\* that fails validation is answered 400 first, equally without a token or a
\* link); under every interleaving of share creations and deletions no stored
\* link refers to a deleted file, and a creation that finds its file deleted
\* at the insert stores nothing
NoOrphanTokens ==
    [][/\ MissingFileRequest =>
             /\ out'.resp = IF BodyRejected(out') THEN Error(400, "validation")
                            ELSE Error(404, "File not found")
             /\ out'.loc = Null
             /\ UNCHANGED <<shareLinks, nextLinkId>>
       /\ LinksHaveFiles'
       /\ \A s \in Slots :
             (reqs[s].kind = "share" /\ reqs'[s] /= reqs[s] /\ reqs[s].in.id \notin DOMAIN files) =>
                 UNCHANGED <<shareLinks, nextLinkId>>]_vars

\* C14 as stated: every share creation for a file id without a record is
\* answered 404
MissingFileAlways404 ==
    [][MissingFileRequest => out'.resp.status = 404]_vars

\* a share creation found the file, the file was deleted before the insert,
\* and the creation ended without a link
NoOrphanTokensWitness ==
    /\ out.kind = "share"
    /\ out.resp.status = 500
    /\ out.in.id \notin DOMAIN files
    /\ shareLinks = EmptyTable
    /\ objects = {}

\* deletions of the file of InitGate and public accesses and revocations of
\* its share link, any two requests in flight together, within one millisecond
NextCascade == Deletes(Slots) \/ Accesses(Slots) \/ Revocations(Slots)
SpecCascade == InitGate /\ [][NextCascade]_vars

\* the token of the share link of InitGate, and its file
FirstToken == SharePrefix \o <<"a">>
FirstFile == 1

\* the owner's deletion of that file has completed
FileDeleted == FirstFile \notin DOMAIN files

\* C15: every stored share link refers to a stored file; the step that
\* completes the owner's deletion of a file leaves no link of that file; once
\* the deletion has completed every public access that arrives with the
\* link's token is answered 404 at the lookup, and no request that was in
\* flight during the deletion brings the link back
CascadeOnDeletion ==
    [][/\ LinksHaveFiles'
       /\ (out'.kind = "delete" /\ out'.resp.status = 200) =>
             /\ out'.in.id \notin DOMAIN files'
             /\ \A i \in DOMAIN shareLinks' : shareLinks'[i].fileId /= out'.in.id
       /\ FileDeleted =>
             /\ FindByToken(shareLinks', FirstToken) = Null
             /\ \A s \in Slots : Free(s) => reqs'[s].kind /= "access"
             /\ (out'.kind = "access" /\ reqs' = reqs /\ out'.in.token = FirstToken) =>
                    out'.resp = Error(404, "Share link not found")]_vars

\* the file was deleted while an access of its link was in flight, and a later
\* access with the link's token was answered 404 while the earlier one was
\* still suspended at its save
CascadeOnDeletionWitness ==
    /\ FileDeleted
    /\ out.kind = "access"
    /\ out.in.token = FirstToken
    /\ out.resp.status = 404
    /\ \E s \in Slots : reqs[s].kind = "access" /\ reqs[s].pc = "save"

\* the step is the save of the access or revocation in slot s, answered 200
SavedBy(s, kind) ==
    /\ reqs[s].kind = kind /\ reqs[s].pc = "save" /\ reqs'[s] /= reqs[s]
    /\ out'.resp.status = 200

\* the token, fileId, expiresAt and password hash of every stored link stay as
\* they are
LinkIdentityFixed ==
    [][\A i \in DOMAIN shareLinks \cap DOMAIN shareLinks' :
          /\ shareLinks'[i].token = shareLinks[i].token
          /\ shareLinks'[i].fileId = shareLinks[i].fileId
          /\ shareLinks'[i].expiresAt = shareLinks[i].expiresAt
          /\ shareLinks'[i].password = shareLinks[i].password]_vars

\* C16: the token, fileId, expiresAt and password hash of a stored share link
\* never change; the save of a successful access changes no field of the link
\* but accessCount, and the save of a revocation no field but isActive
LinkImmutability ==
    [][\A i \in DOMAIN shareLinks \cap DOMAIN shareLinks' :
          /\ shareLinks'[i].token = shareLinks[i].token
          /\ shareLinks'[i].fileId = shareLinks[i].fileId
          /\ shareLinks'[i].expiresAt = shareLinks[i].expiresAt
          /\ shareLinks'[i].password = shareLinks[i].password
          /\ (\E s \in Slots : SavedBy(s, "access")) =>
                 shareLinks'[i] = [shareLinks[i] EXCEPT !.accessCount = shareLinks'[i].accessCount]
          /\ (\E s \in Slots : SavedBy(s, "revoke")) =>
                 shareLinks'[i] = [shareLinks[i] EXCEPT !.isActive = shareLinks'[i].isActive]]_vars

\* a successful access has just been answered for a token whose revocation was
\* answered while the access was in flight, and its save left the link active
AccessRewroteActive ==
    /\ out.kind = "access"
    /\ out.resp.status = 200
    /\ out.in.token \in revoked
    /\ out.in.token \notin out.in.startedAfter
    /\ \E i \in DOMAIN shareLinks : shareLinks[i].token = out.in.token /\ shareLinks[i].isActive

\* uploads into the empty service, any two in flight together
NextUpload == Tick \/ Uploads(Slots)
SpecUpload == Init /\ [][NextUpload]_vars

\* C17: an upload puts at most one object, on arrival, and goes on to the
\* record only with that object stored; the file record is inserted by the
\* step that follows, which puts nothing and answers 201; an upload answered
\* on arrival (rejected, or 500 when the put failed) has put nothing and
\* leaves no record and no request behind
WriteThenRecord ==
    [][/\ \A s \in Slots :
             /\ (Free(s) /\ reqs'[s].kind = "upload") =>
                    /\ reqs'[s].pc = "record"
                    /\ reqs'[s].loc.key \in objects'
                    /\ objects' \ objects \subseteq {reqs'[s].loc.key}
                    /\ files' = files
             /\ (reqs[s].kind = "upload" /\ reqs'[s] /= reqs[s]) =>
                    /\ objects' = objects
                    /\ out'.resp.status = 201
                    /\ \E i \in DOMAIN files' \ DOMAIN files :
                          files' = Insert(files, files'[i]) /\ files'[i].key = reqs[s].loc.key
       /\ files' /= files =>
             \E s \in Slots : reqs[s].kind = "upload" /\ reqs[s].pc = "record" /\ reqs'[s] = Idle
       /\ (out'.kind = "upload" /\ reqs' = reqs) =>
             /\ UNCHANGED <<files, objects, nextFileId>>
             /\ out'.resp.status \in {400, 401, 500}
             /\ out'.resp.status = 500 => out'.resp = Error(500, "Failed to upload file")]_vars

\* after one upload was recorded, the put of a second one failed: it was
\* answered 500 and the record of the first is the only one
WriteThenRecordWitness ==
    /\ out.kind = "upload"
    /\ out.resp.status = 500
    /\ Cardinality(DOMAIN files) = 1
    /\ Cardinality(objects) = 1
    /\ \A s \in Slots : reqs[s] = Idle

\* uploads and deletions, one request at a time and within one millisecond,
\* either store failing at any of its calls
NextDangling ==
    \/ Uploads({"r1"}) \/ UploadRecordFailed("r1")
    \/ Deletes({"r1"}) \/ DeleteRecordFailed("r1")
SpecDangling == Init /\ [][NextDangling]_vars

\* C18: in every state the key of every file record names an object present
\* in the object store
NoDanglingMetadata == \A i \in DOMAIN files : files[i].key \in objects

\* a deletion removed the object, failed at the record and was answered 500:
\* no request is in flight and a stored record names an object that is gone
DanglingRecord ==
    /\ out.kind = "delete"
    /\ out.resp.status = 500
    /\ \A s \in Slots : reqs[s] = Idle
    /\ \E i \in DOMAIN files : files[i].key \notin objects

\* "T/{path}/{timestamp}-{filename}", or "T/{timestamp}-{filename}" when there
\* is no path
ShapedKey(T, path, timestamp, filename) ==
    LET folder == IF path = Null THEN <<>> ELSE path \o <<"/">>
    IN Decimal(T) \o <<"/">> \o folder \o Decimal(timestamp) \o <<"-">> \o filename

\* C19: the key an upload of tenant T puts its object under, and then records,
\* is "T/{path}/{timestamp}-{filename}" with the normalized path, the time of
\* the request and the name of the uploaded file, the path segment left out
\* when no path is given; so the key of every stored record starts with the id
\* of a tenant followed by "/", the uploader's when the record is created
KeyShape ==
    [][/\ \A s \in Slots :
             /\ (Free(s) /\ reqs'[s].kind = "upload") =>
                    /\ reqs'[s].user \in Tenants
                    /\ reqs'[s].loc.key =
                          ShapedKey(reqs'[s].user, normalizePath(reqs'[s].in.path).path, now,
                                    reqs'[s].in.file[1].originalname)
             /\ (reqs[s].kind = "upload" /\ reqs'[s] /= reqs[s]) =>
                    \A i \in DOMAIN files' \ DOMAIN files :
                        /\ files'[i].key = reqs[s].loc.key
                        /\ files'[i].path = normalizePath(reqs[s].in.path).path
                        /\ files'[i].name = reqs[s].in.file[1].originalname
                        /\ StartsWith(files'[i].key, TenantPrefix(reqs[s].user))
       /\ \A i \in DOMAIN files' :
             \E T \in Tenants : StartsWith(files'[i].key, TenantPrefix(T))]_vars

\* tenant 11 has uploaded a file under a path, one tick after the service
\* started, and the record holds the key with the path segment
KeyShapeWitness ==
    /\ out.kind = "upload"
    /\ out.resp.status = 201
    /\ out.user = 11
    /\ out.resp.file.path = <<"a">>
    /\ out.resp.file.key = <<"1", "1", "/", "a", "/", "1", "0", "0", "0", "-", "F">>
    /\ out.resp.file.id \in DOMAIN files

\* C20: in every state no two file records have the same storage key
KeysUnique ==
    \A i, j \in DOMAIN files : files[i].key = files[j].key => i = j

\* two uploads of one tenant with the same file name and no path were made in
\* the same millisecond: two records hold one key and the store one object
SharedKey ==
    /\ out.kind = "upload"
    /\ out.resp.status = 201
    /\ \E i, j \in DOMAIN files :
          /\ i /= j
          /\ files[i].key = files[j].key
          /\ files[i].createdAt = files[j].createdAt
    /\ Cardinality(objects) = 1

\* the api_keys tables the administrator can leave: each key of InitialKeys
\* active or deactivated
KeyTables ==
    { {[k EXCEPT !.isActive = f[k.id]] : k \in InitialKeys} :
        f \in [{k.id : k \in InitialKeys} -> BOOLEAN] }

\* the service as it starts, with one of those tables
InitAuth ==
    /\ now = 0
    /\ apiKeys \in KeyTables
    /\ files = EmptyTable
    /\ shareLinks = EmptyTable
    /\ objects = {}
    /\ nextFileId = 1
    /\ nextLinkId = 1
    /\ reqs = [s \in Slots |-> Idle]
    /\ out = NoOut
    /\ revoked = {}

\* requests for a protected route, any two in flight together
NextAuth ==
    \/ \E s \in Slots, cred \in AuthHeaders : Authenticate(s, cred)
    \/ \E s \in Slots : NextHandler(s)
SpecAuth == InitAuth /\ [][NextAuth]_vars

\* the rows of active credentials with key h
ActiveRows(h) == {k \in apiKeys : k.key = h /\ k.isActive}

\* C21: the middleware answers a request itself exactly when its header names
\* no active credential: 401 for a missing header, and 401 with one and the
\* same message for a key no row holds and for the key of a deactivated row;
\* the next handler is not run for it.  A request with the key of an active
\* row is passed on with that row's id and name as its identity, and the next
\* handler runs once, with that identity
IdentityResolution ==
    [][/\ \A s \in Slots :
             /\ (Free(s) /\ reqs'[s].kind = "auth") =>
                    /\ reqs'[s].pc = "next"
                    /\ out' = NoOut
                    /\ \E k \in ActiveRows(reqs'[s].in.header) :
                          reqs'[s].loc.apiKey = [id |-> k.id, name |-> k.name]
             /\ (reqs[s].kind = "auth" /\ reqs'[s] /= reqs[s]) =>
                    /\ reqs'[s] = Idle
                    /\ out'.resp = [status |-> 200, apiKey |-> reqs[s].loc.apiKey]
       /\ (out'.kind = "auth" /\ reqs' = reqs) =>
             /\ ActiveRows(out'.in.header) = {}
             /\ out'.resp.status = 401
             /\ DOMAIN out'.resp = {"status", "error"}
             /\ out'.in.header /= "" => out'.resp.error = "Invalid or inactive API key"
             /\ out'.loc = Null]_vars

\* the key of a deactivated row was refused while a request with the key of
\* an active row was at its handler
IdentityResolutionWitness ==
    /\ out.kind = "auth"
    /\ out.resp.status = 401
    /\ \E k \in apiKeys : k.key = out.in.header /\ ~k.isActive
    /\ \E s \in Slots : reqs[s].kind = "auth" /\ reqs[s].pc = "next" /\ reqs[s].loc.apiKey.name = "one"

\* the table with every credential deactivated
Deactivated == {[k EXCEPT !.isActive = FALSE] : k \in InitialKeys}

\* one file of tenant 1: not yet shared, with the credentials as issued, or
\* shared, with every credential deactivated since
InitRoutes ==
    \/ InitOneFile
    \/ /\ now = 0
       /\ apiKeys = Deactivated
       /\ files = Insert(EmptyTable, UploadedRow(1, 1, FirstUpload, 0))
       /\ objects = {UploadedRow(1, 1, FirstUpload, 0).key}
       /\ \E body \in {b \in ShareInputs : ShareValid(b)} :
             shareLinks = Insert(EmptyTable, IssuedRow(1, 1, body, SharePrefix \o <<"a">>, 0))
       /\ nextFileId = 2
       /\ nextLinkId = 2
       /\ reqs = [s \in Slots |-> Idle]
       /\ out = NoOut
       /\ revoked = {}

\* every route of the two routers, one request at a time, within one
\* millisecond; uploads of one file, share links without ttl and password
NextRoutes ==
    \/ \E cred \in Credentials, stored \in StorageOutcomes : UploadPut("r1", cred, FirstUpload, stored)
    \/ UploadRecord("r1")
    \/ Lists({"r1"}, {NoFilter}) \/ Details({"r1"}) \/ Deletes({"r1"}) \/ ShareLists({"r1"})
    \/ \E cred \in Credentials, id \in FileIds :
          ShareFind("r1", cred, id, [ttl |-> Null, password |-> <<>>], SharePrefix \o <<"a">>)
    \/ ShareSave("r1")
    \/ Accesses({"r1"}) \/ Revocations({"r1"})
SpecRoutes == InitRoutes /\ [][NextRoutes]_vars

\* the routes behind the middleware
TenantScoped == {"upload", "list", "detail", "delete", "share", "shares", "revoke"}

\* the ids of the active credentials
ActiveIds == {k.id : k \in {j \in apiKeys : j.isActive}}

\* the answers of the middleware
ResolverAnswers ==
    {Error(401, "API key required. Provide X-API-Key header."),
     Error(401, "Invalid or inactive API key")}

\* C22: a public access is handled without an identity and is never answered
\* by the middleware, whatever credentials exist, so its outcome cannot depend
\* on the credential sent; a request of any other route is either answered by
\* the middleware as it arrives, nothing read or changed, or handled under the
\* identity of an active credential
ResolverOnlyForTenants ==
    [][/\ \A s \in Slots :
             /\ reqs'[s].kind = "access" => reqs'[s].user = 0
             /\ reqs'[s].kind \in TenantScoped => reqs'[s].user \in ActiveIds
       /\ out'.kind = "access" => (out'.user = 0 /\ out'.resp \notin ResolverAnswers)
       /\ out'.kind \in TenantScoped =>
             \/ out'.user \in ActiveIds /\ out'.resp \notin ResolverAnswers
             \/ /\ out'.user = 0
                /\ out'.resp \in ResolverAnswers
                /\ out'.loc = Null
                /\ reqs' = reqs
                /\ UNCHANGED stores]_vars

\* a public access was granted while no credential was active, so whatever
\* header it carried was none or invalid
ResolverOnlyForTenantsWitness ==
    /\ ActiveIds = {}
    /\ out.kind = "access"
    /\ out.resp.status = 200

\* the stored share links with token t whose file belongs to a tenant other
\* than B
ForeignLinks(B, t) ==
    {i \in DOMAIN shareLinks :
        /\ shareLinks[i].token = t
        /\ shareLinks[i].fileId \in DOMAIN files
        /\ \E A \in Tenants \ {B} : StartsWith(files[shareLinks[i].fileId].key, TenantPrefix(A))}

\* C23: the answer to a revocation by tenant B for the token of a link whose
\* file's key starts with another tenant's prefix is a rejection, and the step
\* leaves the link's isActive as it was
OnlyOwnerRevokes ==
    [][(out'.kind = "revoke" /\ out'.user \in Tenants) =>
          \A i \in ForeignLinks(out'.user, out'.in.token) :
              /\ out'.resp.status >= 400
              /\ i \in DOMAIN shareLinks'
              /\ shareLinks'[i].isActive = shareLinks[i].isActive]_vars

\* tenant 11 has revoked the link of a file of tenant 1: answered 200, the
\* link stored inactive
ForeignRevocation ==
    /\ out.kind = "revoke"
    /\ out.user = 11
    /\ out.resp.status = 200
    /\ \E i \in DOMAIN shareLinks :
          /\ shareLinks[i].token = out.in.token
          /\ ~shareLinks[i].isActive
          /\ StartsWith(files[shareLinks[i].fileId].key, TenantPrefix(1))

\* an upload with a path
SecondUpload == CHOOSE in \in ValidUploads : in.path /= Null

\* the state after tenant 1 has uploaded two files at time 0
InitTwoFiles ==
    /\ now = 0
    /\ apiKeys = InitialKeys
    /\ files = Insert(Insert(EmptyTable, UploadedRow(1, 1, FirstUpload, 0)),
                      UploadedRow(2, 1, SecondUpload, 0))
    /\ objects = {UploadedRow(1, 1, FirstUpload, 0).key, UploadedRow(2, 1, SecondUpload, 0).key}
    /\ shareLinks = EmptyTable
    /\ nextFileId = 3
    /\ nextLinkId = 1
    /\ reqs = [s \in Slots |-> Idle]
    /\ out = NoOut
    /\ revoked = {}

\* share-creation bodies of the views: no ttl and no password, and a ttl of
\* one second with a password
ViewBodies == {b \in ShareInputs : ShareValid(b) /\ ((b.ttl = Null) <=> (b.password = <<>>))}

\* the owner shares the files, revokes links and views the files while time
\* passes, one request at a time
NextViews ==
    \/ Tick
    \/ \E id \in FileIds, body \in ViewBodies, token \in generateShareToken :
          ShareFind("r1", "sk_1", id, body, token)
    \/ ShareSave("r1")
    \/ Revocations({"r1"})
    \/ Lists({"r1"}, {NoFilter}) \/ Details({"r1"}) \/ ShareLists({"r1"})
SpecViews == InitTwoFiles /\ [][NextViews]_vars

\* the files a 200 response of the list, detail or shares endpoint reports,
\* each with the share links reported for it
ReportedUnder(o) ==
    CASE o.kind = "list" ->
            {<<o.resp.files[i].file.id, o.resp.files[i].shareLinks>> : i \in DOMAIN o.resp.files}
      [] o.kind = "detail" -> {<<o.in.id, o.resp.shareLinks>>}
      [] o.kind = "shares" -> {<<o.in.id, o.resp.shares>>}

\* C24: in every 200 response of the list, detail and shares endpoints the
\* links reported for a file are exactly the stored links of that file that
\* are active and expire after the time of the response, each with its own
\* token, expiry, password flag and count
ActiveLinksReported ==
    [][(out'.kind \in {"list", "detail", "shares"} /\ out'.resp.status = 200) =>
          \A p \in ReportedUnder(out') :
              LET usable == {i \in DOMAIN shareLinks :
                                /\ shareLinks[i].fileId = p[1]
                                /\ shareLinks[i].isActive
                                /\ shareLinks[i].expiresAt > now}
              IN p[2] = {[token |-> shareLinks[i].token,
                          expiresAt |-> shareLinks[i].expiresAt,
                          hasPassword |-> (shareLinks[i].password /= Null),
                          accessCount |-> shareLinks[i].accessCount] : i \in usable}]_vars

\* the list shows both files without links while a link of one of them is
\* stored, revoked or expired
ActiveLinksReportedWitness ==
    /\ out.kind = "list"
    /\ out.resp.status = 200
    /\ Len(out.resp.files) = 2
    /\ \A i \in DOMAIN out.resp.files : out.resp.files[i].shareLinks = {}
    /\ \E i \in DOMAIN shareLinks : ~shareLinks[i].isActive \/ shareLinks[i].expiresAt <= now

\* the owner shares a file, with and without password, and views it, and the
\* public accesses the links; one request at a time, within one millisecond
NextSecrets ==
    \/ \E cred \in Credentials, id \in FileIds, body \in ShareInputs :
          ShareFind("r1", cred, id, body, SharePrefix \o <<"a">>)
    \/ ShareSave("r1")
    \/ Accesses({"r1"})
    \/ Lists({"r1"}, {NoFilter}) \/ Details({"r1"}) \/ ShareLists({"r1"})
SpecSecrets == InitOneFile /\ [][NextSecrets]_vars

\* the fields of an error response
ErrorFields == {{"status", "error"}, {"status", "error", "requiresPassword"}}

\* a share link as reported to its owner: no field but these, hasPassword a
\* boolean
PlainLinkView(v) ==
    /\ DOMAIN v = {"token", "expiresAt", "hasPassword", "accessCount"}
    /\ v.hasPassword \in BOOLEAN
    /\ StartsWith(v.token, SharePrefix)

NextBestEffort == Tick \/ Accesses({"r1"}) \/ AccessSaveFailed("r1")
SpecBestEffort == InitGate /\ [][NextBestEffort]_vars

\* C26: when an access has passed the checks and the write of the incremented
\* accessCount fails, the request is still answered 200 with the download URL
BestEffortCounting ==
    [][\A s \in Slots :
          (/\ reqs[s].kind = "access" /\ reqs[s].pc = "save" /\ reqs'[s] /= reqs[s]
           /\ reqs[s].loc.shareLink.id \in DOMAIN shareLinks
           /\ shareLinks' = shareLinks) =>
              /\ out'.resp.status = 200
              /\ out'.resp.downloadUrl = DownloadUrl(reqs[s].loc.file.key)]_vars

\* a granted access was answered 500 because its count could not be written:
\* the link is stored with the count it had
FailedIncrement ==
    /\ out.kind = "access"
    /\ out.resp = Error(500, "Failed to access share link")
    /\ out.loc.shareLink.id \in DOMAIN shareLinks
    /\ out.loc.shareLink.accessCount = shareLinks[out.loc.shareLink.id].accessCount + 1
    /\ out.loc.shareLink.isActive

\* public accesses of the link of InitGate, any two in flight together, the
\* metadata store failing at the save or not; a handler suspended at an await
\* is resumed when the awaited call settles
NextTerminates ==
    \/ Tick
    \/ Accesses(Slots)
    \/ \E s \in Slots : AccessSaveFailed(s)
SpecTerminates ==
    /\ InitGate /\ [][NextTerminates]_vars
    /\ \A s \in Slots :
          /\ WF_vars(AccessCheck(s))
          /\ WF_vars((\E signed \in StorageOutcomes : AccessSave(s, signed)) \/ AccessSaveFailed(s))

\* the responses of the gate that are not a grant
GateFailures ==
    { Error(400, "Invalid share token format"), Error(404, "Share link not found"),
      Error(403, "Share link has been revoked"), Error(410, "Share link has expired"),
      [status |-> 401, error |-> "Password required", requiresPassword |-> TRUE],
      Error(401, "Invalid password"), Error(500, "Failed to access share link") }

\* the position of a handler in the gate
Rank(pc) == CASE pc = "idle" -> 0 [] pc = "check" -> 1 [] pc = "save" -> 2

\* a step of the gate: at most one request moves; a request that stays in
\* flight has moved forward and nothing was sent; a request that ends was
\* sent one response, a grant or one of the failures
GateStep ==
    /\ \A s, t \in Slots : (reqs'[s] /= reqs[s] /\ reqs'[t] /= reqs[t]) => s = t
    /\ \A s \in Slots :
          /\ (reqs'[s] /= reqs[s] /\ reqs'[s].kind = "access") =>
                 /\ Rank(reqs'[s].pc) > Rank(reqs[s].pc)
                 /\ out' = NoOut
          /\ (reqs'[s] /= reqs[s] /\ reqs'[s].kind /= "access") =>
                 /\ reqs'[s] = Idle
                 /\ out'.kind = "access"
    /\ out'.kind = "access" =>
          /\ \A s \in Slots : reqs'[s] = reqs[s] \/ reqs'[s] = Idle
          /\ \/ out'.resp \in GateFailures
             \/ out'.resp.status = 200 /\ "downloadUrl" \in DOMAIN out'.resp

\* C27: every public access ends, with one response, which is a grant or one
\* of the seven failures, and its handler passes each position of the gate at
\* most once
GateTerminates ==
    /\ [][GateStep]_vars
    /\ \A s \in Slots : (reqs[s].kind = "access") ~> (reqs[s].pc = "idle")

\* an access has ended with 410 while another one, started before the link
\* expired, is still suspended at its save
GateTerminatesWitness ==
    /\ out.kind = "access"
    /\ out.resp = Error(410, "Share link has expired")
    /\ \E s \in Slots : reqs[s].kind = "access" /\ reqs[s].pc = "save"

(***************************** pagination **********************************)
\* the files tables MaxFiles uploads of one file leave, each by either tenant,
\* at time 0 or one tick later
PagedTables ==
    {tb \in UploadedTables : \A i \in DOMAIN tb : tb[i].name = FirstUpload.file[1].originalname
                                                 /\ tb[i].path = Null}
InitPages == InitUploaded(PagedTables)

\* unfiltered listings by page and limit
PageQueries ==
    {[NoFilter EXCEPT !.page = p, !.limit = l] : p \in 1..(MaxFiles + 1), l \in 1..2}

\* listings of a fixed set of files, page fetches in flight together
NextPages ==
    \/ \E s \in Slots, q \in PageQueries : ListCount(s, "sk_1", q)
    \/ \E s \in Slots : ListFind(s)
    \/ \E s \in Slots : ListRespond(s)
SpecPages == InitPages /\ [][NextPages]_vars

\* the n records of an ordering from position first on, counted from 0, as far
\* as it has them
Segment(o, first, n) ==
    LET rest == Len(o) - first
        m == IF rest < 0 THEN 0 ELSE IF rest < n THEN rest ELSE n
    IN [i \in 1..m |-> o[first + i]]

\* positions (p-1)*L .. p*L-1 of an ordering
Slice(o, p, L) == Segment(o, (p - 1) * L, L)

\* whether the creation times of a tenant's files differ pairwise
DistinctTimes(user) ==
    \A i, j \in FilesOf(user) : i /= j => files[i].createdAt /= files[j].createdAt

\* a page fetch of GET /files that the store has answered
Fetched(s) == reqs[s].kind = "list" /\ reqs[s].pc = "links"
FetchedIds(s) == [i \in DOMAIN reqs[s].loc.files |-> reqs[s].loc.files[i].id]
Range(f) == {f[i] : i \in DOMAIN f}

\* two answered page fetches of one tenant with one limit and different pages
TwoPages(s, t) ==
    /\ Fetched(s) /\ Fetched(t)
    /\ reqs[s].user = reqs[t].user
    /\ reqs[s].in.limit = reqs[t].in.limit
    /\ reqs[s].in.page /= reqs[t].in.page

IsDigits(s) == s /= <<>> /\ \A i \in 1..Len(s) : s[i] \in Digits

\* listFilesQuerySchema on the page and limit of a query string (each absent or
\* a string): [ok, data], ok FALSE for safeParse's failure; page and limit are
\* .regex(/^\d+$/).transform(Number).optional().default(..)
listFilesQuerySchema(raw) ==
    IF /\ raw.page = Null \/ IsDigits(raw.page[1])
       /\ raw.limit = Null \/ IsDigits(raw.limit[1])
    THEN [ok |-> TRUE,
          data |-> [NoFilter EXCEPT
                      !.page = IF raw.page = Null THEN DefaultPage ELSE ToNumber(raw.page[1]),
                      !.limit = IF raw.limit = Null THEN DefaultLimit ELSE ToNumber(raw.limit[1])]]
    ELSE [ok |-> FALSE, data |-> NoFilter]

\* the page and limit parameters the model's query strings carry
RawNumbers == {Null} \cup {Some(n) : n \in {<<>>, <<"0">>, <<"1">>, <<"2">>, <<"-", "1">>, <<"x">>}}
RawQueries == [page : RawNumbers, limit : RawNumbers]

\* GET /files from its arrival: authentication, validation of the query string,
\* and then as ListCount
ListRequest(s, cred, raw) ==
    LET a == authenticateAPIKey(cred)
        v == listFilesQuerySchema(raw)
    IN IF a.ok /\ ~v.ok
       THEN /\ Free(s)
            /\ Respond(s, "list", a.id, raw, Null, Error(400, "validation"))
            /\ UNCHANGED <<now, stores, revoked>>
       ELSE ListCount(s, cred, v.data)

\* listings with raw page and limit parameters, one request at a time
NextBounds ==
    \/ \E cred \in Credentials, raw \in RawQueries : ListRequest("r1", cred, raw)
    \/ ListFind("r1")
    \/ ListRespond("r1")
SpecBounds == InitPages /\ [][NextBounds]_vars

\* C29: every listing that passed validation has page >= 1 and limit >= 1, so
\* its skip (page-1)*limit is not negative, and the totalPages of every 200
\* response is the quotient of a division by a positive limit, a natural number
PaginationBounds ==
    /\ \A s \in Slots :
          (reqs[s].kind = "list" /\ reqs[s].pc = "find") =>
              /\ reqs[s].in.page >= 1
              /\ reqs[s].in.limit >= 1
              /\ (reqs[s].in.page - 1) * reqs[s].in.limit >= 0
    /\ (out.kind = "list" /\ out.resp.status = 200) =>
          /\ out.in.limit >= 1
          /\ out.resp.pagination.totalPages \in Nat

\* a listing with page=0 and limit=0 was answered 200 for a tenant that holds
\* a file
ZeroLimitListing ==
    /\ out.kind = "list"
    /\ out.resp.status = 200
    /\ out.in.page = 0 /\ out.in.limit = 0
    /\ out.resp.pagination.total >= 1

(***************************** substring filters ***************************)
\* listings with a name or path filter, one request at a time
SearchQueries ==
    {[NoFilter EXCEPT !.search = sr] : sr \in {<<"%">>, <<"_">>, <<"\\">>, <<"f">>, <<"f", "%">>}}
    \cup {[NoFilter EXCEPT !.searchPath = sp] : sp \in {<<"_">>, <<"%">>, <<"a">>}}
NextSearch == Lists({"r1"}, SearchQueries)
SpecSearch == InitFiles /\ [][NextSearch]_vars

\* whether s contains p as a literal substring, the case of letters ignored
Folded(s) == [i \in DOMAIN s |-> Lower(s[i])]
Contains(s, p) == s /= Null /\ Includes(Folded(s), Folded(p))

\* C30: every file a 200 response of GET /files returns for a search or
\* searchPath value has a name, or a path, that contains the value as a
\* literal substring
LiteralFilters ==
    (out.kind = "list" /\ out.resp.status = 200) =>
        \A i \in DOMAIN out.resp.files :
            /\ out.in.search /= <<>> => Contains(out.resp.files[i].file.name, out.in.search)
            /\ out.in.searchPath /= <<>> => Contains(out.resp.files[i].file.path, out.in.searchPath)

\* search="%" was answered with a file whose name holds no percent sign
PercentSelectsAll ==
    /\ out.kind = "list"
    /\ out.resp.status = 200
    /\ out.in.search = <<"%">>
    /\ \E i \in DOMAIN out.resp.files : ~Includes(out.resp.files[i].file.name, <<"%">>)

(***************************** path normalizer, checked ********************)
\* the raw path fields the uploads carry: every string of at most MaxPathLen
\* of these characters, and the three paths of the documentation
MaxPathLen == 3
PathChars == {"a", "/", ".", " ", "%"}
ParentEtc == <<".", ".", "/", ".", ".", "/", "e", "t", "c">>
ImagesAvatars == <<"i", "m", "a", "g", "e", "s", "/", "a", "v", "a", "t", "a", "r", "s">>
ImagesDoubled == <<"i", "m", "a", "g", "e", "s", "/", "/", "a", "v", "a", "t", "a", "r", "s">>
PathInputs ==
    UNION {[1..n -> PathChars] : n \in 0..MaxPathLen}
    \cup {ParentEtc, ImagesDoubled, <<"/">> \o ImagesAvatars \o <<"/">>}

\* the state after tenant 1 has uploaded all files but one
InitPaths ==
    /\ now = TickMs
    /\ apiKeys = InitialKeys
    /\ files = [i \in 1..(MaxFiles - 1) |-> UploadedRow(i, 1, FirstUpload, 0)]
    /\ objects = {files[i].key : i \in DOMAIN files}
    /\ shareLinks = EmptyTable
    /\ nextFileId = MaxFiles
    /\ nextLinkId = 1
    /\ reqs = [s \in Slots |-> Idle]
    /\ out = NoOut
    /\ revoked = {}

\* the upload of one file under each of the paths
NextPaths ==
    \/ \E p \in PathInputs, stored \in StorageOutcomes :
          UploadPut("r1", "sk_1", [FirstUpload EXCEPT !.path = p], stored)
    \/ UploadRecord("r1")
SpecPaths == InitPaths /\ [][NextPaths]_vars

\* a raw path that is absent or, its surrounding spaces and then its
\* surrounding slashes taken off, empty: spaces, slashes, spaces
BlankPath(p) ==
    /\ \A i \in 1..Len(p) : p[i] \in {" ", "/"}
    /\ \A i, j, k \in 1..Len(p) : (i < j /\ j < k) => ~(p[i] = "/" /\ p[j] = " " /\ p[k] = "/")

\* a stored path: no slash at either end, no "..", no "//", only letters,
\* digits, "/", "_" and "-"
CleanPath(p) ==
    /\ p /= <<>>
    /\ p[1] /= "/" /\ p[Len(p)] /= "/"
    /\ \A i \in 1..(Len(p) - 1) : ~(p[i] = "." /\ p[i + 1] = ".") /\ ~(p[i] = "/" /\ p[i + 1] = "/")
    /\ \A i \in 1..Len(p) : p[i] \in LowerLetters \cup UpperLetters \cup Digits \cup {"/", "_", "-"}

\* C31: for the path of every answered upload normalizePath gives "no path"
\* exactly when the path is absent or blank, and otherwise fails or gives a
\* clean path; the upload is answered "Invalid path" exactly when it fails and
\* the stored record carries what it gives; it fails on "../../etc" and on
\* "images//avatars" and gives "images/avatars" for "/images/avatars/"
PathNormalizer ==
    /\ (out.kind = "upload" /\ out.resp.status \in {201, 400}) =>
          LET np == normalizePath(out.in.path)
          IN /\ (np.ok /\ np.path = Null) <=> BlankPath(out.in.path)
             /\ (np.ok /\ np.path /= Null) => CleanPath(np.path)
             /\ ~np.ok <=> out.resp = Error(400, "Invalid path")
             /\ out.resp.status = 201 =>
                   /\ out.resp.file.path = np.path
                   /\ out.resp.file.path = Null \/ CleanPath(out.resp.file.path)
    /\ ~normalizePath(ParentEtc).ok
    /\ ~normalizePath(ImagesDoubled).ok
    /\ normalizePath(<<"/">> \o ImagesAvatars \o <<"/">>) = [ok |-> TRUE, path |-> ImagesAvatars]

\* an upload was recorded under "images/avatars" or under "a", its raw path
\* being another string ("/images/avatars/", " /a")
PathNormalizerWitness ==
    /\ out.kind = "upload"
    /\ out.resp.status = 201
    /\ out.in.path /= out.resp.file.path
    /\ out.resp.file.path \in {ImagesAvatars, <<"a">>}

(***************************** upload validation ***************************)
\* JSON.parse on the metadata fields the model sends: what the text parses to,
\* "error" for the SyntaxError
JsonParse(text) ==
    CASE text = <<"{", "}">> -> "object"
      [] text = <<"1">> -> "number"
      [] text = <<"n", "u", "l", "l">> -> "null"
      [] OTHER -> "error"

\* uploadFileSchema on metadata: parsedMetadata || undefined against
\* z.record(z.unknown()).optional()
MetadataValid(parsed) == parsed \in {"object", "null"}

\* uploads with a metadata field (absent, or a string), among them a file of
\* size 0
EmptyFile == [originalname |-> <<"f">>, mimetype |-> "text/plain", size |-> 0]
MetadataTexts == {<<>>, <<"{", "}">>, <<"{">>, <<"1">>, <<"n", "u", "l", "l">>}
MetadataUploads ==
    {[file |-> u.file, path |-> u.path, metadata |-> m] :
        u \in UploadInputs \cup {[file |-> Some(EmptyFile), path |-> Null]},
        m \in {Null} \cup {Some(t) : t \in MetadataTexts}}

\* POST /files/upload from its arrival: the metadata field parsed and checked,
\* and then as UploadPut
UploadRequest(s, cred, in, stored) ==
    LET a == authenticateAPIKey(cred)
        parsed == IF in.metadata = Null THEN "null" ELSE JsonParse(in.metadata[1])
    IN IF a.ok /\ in.file /= Null /\ parsed = "error"
       THEN /\ Free(s)
            /\ nextFileId + InFlight("upload") <= MaxFiles
            /\ Respond(s, "upload", a.id, in, Null, Error(400, "Invalid metadata JSON format"))
            /\ UNCHANGED <<now, stores, revoked>>
       ELSE IF a.ok /\ in.file /= Null /\ ~MetadataValid(parsed)
       THEN /\ Free(s)
            /\ nextFileId + InFlight("upload") <= MaxFiles
            /\ Respond(s, "upload", a.id, in, Null, Error(400, "validation"))
            /\ UNCHANGED <<now, stores, revoked>>
       ELSE UploadPut(s, cred, in, stored)

\* uploads with every field, one request at a time
NextValidation ==
    \/ \E cred \in Credentials, in \in MetadataUploads, stored \in StorageOutcomes :
          UploadRequest("r1", cred, in, stored)
    \/ UploadRecord("r1")
SpecValidation == Init /\ [][NextValidation]_vars

\* an upload that fails validation: no file, a metadata text that is no JSON,
\* a field the schema refuses, or a path the normalizer refuses
FailsValidation(in) ==
    \/ in.file = Null
    \/ in.metadata /= Null /\ in.metadata[1] \notin {<<"{", "}">>, <<"n", "u", "l", "l">>}
    \/ in.file /= Null /\ (in.file[1].originalname = <<>> \/ in.file[1].size <= 0)
    \/ ~BlankPath(in.path) /\ ~CleanPath(DropTrailing(DropLeading(Trim(in.path), {"/"}), {"/"}))

\* the step answers an authenticated upload
UploadAnswered == out'.kind = "upload" /\ out'.user /= 0

\* C32: an upload that fails validation is answered 400 at its arrival, no
\* object having been put and no record created for it: the step leaves both
\* stores as they were; and no upload that passes validation is answered 400
ValidationBeforeWrite ==
    [][UploadAnswered =>
          /\ FailsValidation(out'.in) <=> out'.resp.status = 400
          /\ out'.resp.status = 400 =>
                /\ reqs' = reqs
                /\ objects' = objects
                /\ files' = files /\ nextFileId' = nextFileId]_vars

\* an upload with a refused path and one with a broken metadata text have been
\* answered 400 after another upload was stored
ValidationBeforeWriteWitness ==
    /\ out.kind = "upload"
    /\ out.resp \in {Error(400, "Invalid path"), Error(400, "Invalid metadata JSON format")}
    /\ files /= EmptyTable

(***************************** key management ******************************)
\* the commands of the key management script that change a stored credential,
\* and the ids they are given (3 names no row)
KeyCommands == {"disable", "enable", "delete"}
KeyIds == {1, 2, 3}

\* a run of the script has ended, with what it printed
Exit(s, in, message) == Respond(s, "key", 0, in, Null, [status |-> 0, message |-> message])

\* disableKey, enableKey and deleteKey up to the await on keyRepo.save or
\* keyRepo.remove: the row is looked up by id
KeyFind(s, cmd, id) ==
    LET found == {k \in apiKeys : k.id = id}
        in == [cmd |-> cmd, id |-> id]
    IN /\ Free(s)
       /\ IF found = {} THEN Exit(s, in, "not found")
          ELSE LET key == CHOOSE k \in found : TRUE
               IN IF cmd = "disable" /\ ~key.isActive THEN Exit(s, in, "already inactive")
                  ELSE IF cmd = "enable" /\ key.isActive THEN Exit(s, in, "already active")
                  ELSE IF cmd = "delete" THEN Await(s, "key", 0, in, "remove", [key |-> key])
                  ELSE Await(s, "key", 0, in, "save",
                             [key |-> [key EXCEPT !.isActive = (cmd = "enable")]])
       /\ UNCHANGED <<now, stores, revoked>>

\* faulty variant: the flag of the loaded row is written to every row
KeySaveAll(s) ==
    LET r == reqs[s]
    IN /\ r.kind = "key" /\ r.pc = "save"
       /\ apiKeys' = {[k EXCEPT !.isActive = r.loc.key.isActive] : k \in apiKeys}
       /\ Exit(s, r.in, IF r.loc.key.isActive THEN "enabled" ELSE "disabled")
       /\ UNCHANGED <<now, files, shareLinks, objects, nextFileId, nextLinkId, revoked>>

\* disableKey and enableKey from keyRepo.save(key): the loaded row, its flag
\* set, replaces the stored one (and is inserted when the stored one is gone)
KeySave(s) ==
    LET r == reqs[s]
    IN /\ r.kind = "key" /\ r.pc = "save"
       /\ apiKeys' = {k \in apiKeys : k.id /= r.loc.key.id} \cup {r.loc.key}
       /\ Exit(s, r.in, IF r.loc.key.isActive THEN "enabled" ELSE "disabled")
       /\ UNCHANGED <<now, files, shareLinks, objects, nextFileId, nextLinkId, revoked>>

\* deleteKey from keyRepo.remove(key)
KeyRemove(s) ==
    LET r == reqs[s]
    IN /\ r.kind = "key" /\ r.pc = "remove"
       /\ apiKeys' = {k \in apiKeys : k.id /= r.loc.key.id}
       /\ Exit(s, r.in, "deleted")
       /\ UNCHANGED <<now, files, shareLinks, objects, nextFileId, nextLinkId, revoked>>

\* runs of the script and requests for a protected route, any two together
NextKeys ==
    \/ \E s \in Slots, cmd \in KeyCommands, id \in KeyIds : KeyFind(s, cmd, id)
    \/ \E s \in Slots : KeySave(s)
    \/ \E s \in Slots : KeyRemove(s)
    \/ \E s \in Slots, cred \in {"sk_1", "sk_2"} : Authenticate(s, cred)
    \/ \E s \in Slots : NextHandler(s)
SpecKeys == Init /\ [][NextKeys]_vars

\* the stored rows with an id
RowsOf(table, id) == {k \in table : k.id = id}

\* C33 as stated: a step does nothing to a stored credential but deactivate or
\* remove it, and a deactivated credential is not active after it
DeactivationPermanent ==
    [][\A k \in apiKeys :
          /\ RowsOf(apiKeys', k.id) \subseteq {k, [k EXCEPT !.isActive = FALSE]}
          /\ ~k.isActive => \A j \in RowsOf(apiKeys', k.id) : ~j.isActive]_vars

\* C33: a step changes the row of at most one credential, and of that row the
\* active flag only, or removes the row; id, key and name of a credential
\* never change; and a credential that was not active is active after a step
\* only when that step is the save of an enable command for its id; the
\* resolver passes a key exactly while a row holds it and is active
CredentialLifecycle ==
    [][/\ \A j \in apiKeys' :
             /\ \E k \in InitialKeys : [j EXCEPT !.isActive = TRUE] = [k EXCEPT !.isActive = TRUE]
             /\ Cardinality(RowsOf(apiKeys', j.id)) = 1
             /\ (j.isActive /\ [j EXCEPT !.isActive = TRUE] \notin apiKeys) =>
                   \E s \in Slots :
                       /\ reqs[s].kind = "key" /\ reqs[s].pc = "save"
                       /\ reqs[s].in = [cmd |-> "enable", id |-> j.id]
                       /\ reqs'[s] = Idle
       /\ Cardinality({id \in KeyIds \cup {k.id : k \in InitialKeys} :
                          RowsOf(apiKeys', id) /= RowsOf(apiKeys, id)}) <= 1
       /\ \A s \in Slots :
             (Free(s) /\ reqs'[s].kind = "auth") => ActiveRows(reqs'[s].in.header) /= {}
       /\ (out'.kind = "auth" /\ out'.resp.status = 401) => ActiveRows(out'.in.header) = {}]_vars

\* the key of the credential that was deactivated when the service started
\* has been passed by the resolver
CredentialLifecycleWitness ==
    /\ out.kind = "auth"
    /\ out.resp.status = 200
    /\ out.in.header = "sk_2"

(***************************** token uniqueness ****************************)
\* share creations for the file of InitOneFile, two in flight together, one
\* link more than MaxLinks being created so that two tokens are drawn
NextTokens ==
    \/ \E s \in Slots, body \in ViewBodies, token \in generateShareToken :
          ShareFindUpTo(s, "sk_1", FirstFile, body, token, MaxLinks + 1)
    \/ \E s \in Slots : ShareSave(s)
    \/ Revocations({"r1"})
SpecTokens == InitOneFile /\ [][NextTokens]_vars

\* "share_" followed by the random part, hexadecimal (one character of the
\* model for the 64)
HexChars == Digits \cup {"a", "b", "c", "d", "e", "f"}
TokenForm(t) ==
    /\ StartsWith(t, SharePrefix)
    /\ Len(t) = Len(SharePrefix) + 1
    /\ \A i \in (Len(SharePrefix) + 1)..Len(t) : t[i] \in HexChars

LikeSpecials == {"%", "_", "\\"}

RECURSIVE escapeLikeStringOnlyWildcards(_)
\* faulty variant: the backslash itself is not escaped (/[%_]/g)
escapeLikeStringOnlyWildcards(str) ==
    IF str = <<>> THEN <<>>
    ELSE (IF Head(str) \in {"%", "_"} THEN <<"\\", Head(str)>> ELSE <<Head(str)>>)
         \o escapeLikeStringOnlyWildcards(Tail(str))

RECURSIVE escapeLikeString(_)
\* str.replace(/[%_\\]/g, '\\$&'): every match is replaced by a backslash and
\* the match
escapeLikeString(str) ==
    IF str = <<>> THEN <<>>
    ELSE (IF Head(str) \in LikeSpecials THEN <<"\\", Head(str)>> ELSE <<Head(str)>>)
         \o escapeLikeString(Tail(str))

\* the strings the function is called with: every string of at most MaxTextLen
\* of these characters
MaxTextLen == 3
TextChars == {"%", "_", "\\", "a", "b"}
Texts == UNION {[1..n -> TextChars] : n \in 0..MaxTextLen}

\* a call of escapeLikeString, as the tests of the validators make it: out
\* holds the argument and the value returned
EscapeCall(str) ==
    /\ out' = [kind |-> "escape", user |-> 0, in |-> str, loc |-> Null,
               resp |-> [status |-> 0, value |-> escapeLikeString(str)]]
    /\ UNCHANGED <<now, stores, reqs, revoked>>

NextEscape == \E str \in Texts : EscapeCall(str)
SpecEscape == Init /\ [][NextEscape]_vars

\* the number of the first k characters of str that are special
SpecialsIn(str, k) == Cardinality({i \in 1..k : str[i] \in LikeSpecials})

\* C35: the value escapeLikeString returns is its argument with one backslash
\* put before every %, _ and \: character k of the argument stands at place
\* k + (the specials among the first k characters), a backslash stands right
\* before it exactly when it is special, and there is nothing else; so the
\* empty string gives the empty string and a string without specials itself
EscapeInsertsBackslashes ==
    out.kind = "escape" =>
        LET str == out.in
            val == out.resp.value
            at(k) == k + SpecialsIn(str, k)
        IN /\ Len(val) = Len(str) + SpecialsIn(str, Len(str))
           /\ \A k \in 1..Len(str) :
                 /\ val[at(k)] = str[k]
                 /\ str[k] \in LikeSpecials => val[at(k) - 1] = "\\"
           /\ str = <<>> => val = <<>>
           /\ SpecialsIn(str, Len(str)) = 0 => val = str

\* the call with "a%\" has returned "a\%\\"
EscapeInsertsBackslashesWitness ==
    /\ out.kind = "escape"
    /\ out.in = <<"a", "%", "\\">>
    /\ out.resp.value = <<"a", "\\", "%", "\\", "\\">>

(***************************** handle after increment **********************)
\* public accesses of the link of InitGate, one at a time, every save
\* succeeding, the signing of the URL failing or not
NextHandle == Tick \/ Accesses({"r1"})
SpecHandle == InitGate /\ [][NextHandle]_vars

\* the step ends the granted access of slot s
GrantEnds(s) == reqs[s].kind = "access" /\ reqs[s].pc = "save" /\ reqs'[s] = Idle

\* C36: the step that ends a granted access has stored its incremented
\* accessCount, one more than was stored, whether it answers 200 or, the
\* retrieval handle having failed, 500: the 500 leaves the increment in place
HandleAfterIncrement ==
    [][\A s \in Slots :
          GrantEnds(s) =>
              LET id == reqs[s].loc.shareLink.id
              IN /\ out'.resp.status \in {200, 500}
                 /\ shareLinks'[id].accessCount = shareLinks[id].accessCount + 1
                 /\ shareLinks'[id].accessCount = reqs[s].loc.shareLink.accessCount
                 /\ out'.resp.status = 200 => out'.resp.accessCount = shareLinks'[id].accessCount
                 /\ out'.resp.status = 500 => out'.resp = Error(500, "Failed to access share link")]_vars

\* the first granted access of the link has been answered 500 and the stored
\* accessCount is 1: one more than the accesses answered 200
HandleAfterIncrementWitness ==
    /\ out.kind = "access"
    /\ out.resp = Error(500, "Failed to access share link")
    /\ out.loc.shareLink.accessCount = 1
    /\ shareLinks[out.loc.shareLink.id].accessCount = 1

(***************************** views and gate ******************************)
\* whether a public access of the link at time t, with the right password,
\* gets past the revocation check and the expiry check of the gate
PassesGate(link, t) == Gate(link, <<>>, t).outcome \notin {"Revoked", "Expired"}

\* C37: in every 200 response of the list, detail and shares endpoints a
\* stored link of a reported file is among the links shown exactly when a
\* public access at the time of the response would get past the revocation
\* and the expiry check, the time at which the link expires included
ViewsAgreeWithGate ==
    (out.kind \in {"list", "detail", "shares"} /\ out.resp.status = 200) =>
        \A p \in ReportedUnder(out) :
            \A i \in DOMAIN shareLinks :
                shareLinks[i].fileId = p[1] =>
                    ((\E v \in p[2] : v.token = shareLinks[i].token) <=> PassesGate(shareLinks[i], now))

\* at the millisecond of its expiry an active link is left out of its owner's
\* shares response, and the gate would let an access pass
ViewsDisagreeAtExpiry ==
    /\ out.kind = "shares"
    /\ out.resp.status = 200
    /\ out.resp.shares = {}
    /\ \E i \in DOMAIN shareLinks :
          /\ shareLinks[i].fileId = out.in.id
          /\ shareLinks[i].isActive
          /\ shareLinks[i].expiresAt = now
          /\ PassesGate(shareLinks[i], now)

(***************************** repeated revocation *************************)
\* the step ends the revocation of slot s, which had found its link
RevocationEnds(s) == reqs[s].kind = "revoke" /\ reqs[s].pc = "save" /\ reqs'[s] = Idle

\* C38: the revocation of a stored link that is already revoked, or expired,
\* is answered 200 and leaves the link as a revocation leaves it: isActive
\* false and every other field as it was stored; the revocation of a
\* well-formed token no link carries is answered 404 and changes no store
RevocationIdempotent ==
    [][/\ \A s \in Slots :
             LET id == reqs[s].loc.shareLink.id
             IN (/\ RevocationEnds(s)
                 /\ id \in DOMAIN shareLinks
                 /\ ~shareLinks[id].isActive \/ Expired(now, shareLinks[id].expiresAt)) =>
                    /\ out'.resp = [status |-> 200, message |-> "Share link revoked successfully"]
                    /\ shareLinks' = [shareLinks EXCEPT ![id] = [@ EXCEPT !.isActive = FALSE]]
       /\ (out'.kind = "revoke" /\ out'.user /= 0 /\ TokenValid(out'.in.token)
              /\ FindByToken(shareLinks, out'.in.token) = Null /\ reqs' = reqs) =>
             /\ out'.resp = Error(404, "Share link not found")
             /\ shareLinks' = shareLinks /\ files' = files /\ objects' = objects]_vars

\* a revocation of an expired link is about to save the link with a count
\* lower than the stored one, an access having been counted since it read it
RevocationHoldsOlderCount ==
    \E s \in Slots :
        /\ reqs[s].kind = "revoke" /\ reqs[s].pc = "save"
        /\ reqs[s].loc.shareLink.id \in DOMAIN shareLinks
        /\ Expired(now, shareLinks[reqs[s].loc.shareLink.id].expiresAt)
        /\ reqs[s].loc.shareLink.accessCount < shareLinks[reqs[s].loc.shareLink.id].accessCount

(***************************** zero ttl ************************************)
\* the body carries the ttl "0" and nothing validation refuses
ZeroTtl(in) == in.ttl = Some(<<"0">>) /\ (in.password = <<>> \/ Len(in.password) >= MinPasswordLen)

\* C39: a creation with ttl "0" is not refused by validation and, by the
\* owner, gets the default TTL of 604800 seconds; every creation that is
\* accepted computes a TTL of at least one second and an expiry later than the
\* time at which it computes it, and every 201 reports that TTL and stores
\* that expiry
ZeroTtlIsDefault ==
    [][/\ (out'.kind = "share" /\ out'.user /= 0 /\ ZeroTtl(out'.in)) =>
             out'.resp.status /= 400
       /\ \A s \in Slots :
             /\ (Free(s) /\ reqs'[s].kind = "share") =>
                    /\ reqs'[s].loc.ttlSeconds >= 1
                    /\ reqs'[s].loc.expiresAt = now + reqs'[s].loc.ttlSeconds * 1000
                    /\ reqs'[s].loc.expiresAt > now
                    /\ ZeroTtl(reqs'[s].in) => reqs'[s].loc.ttlSeconds = 604800
             /\ (reqs[s].kind = "share" /\ reqs'[s] = Idle /\ out'.resp.status = 201) =>
                    /\ out'.resp.ttl = reqs[s].loc.ttlSeconds
                    /\ out'.resp.ttl >= 1
                    /\ out'.resp.expiresAt = reqs[s].loc.expiresAt
                    /\ \E i \in DOMAIN shareLinks' \ DOMAIN shareLinks :
                          shareLinks'[i].expiresAt = reqs[s].loc.expiresAt]_vars

\* the owner's creation with ttl "0" has been answered 201 with ttl 604800
ZeroTtlIsDefaultWitness ==
    /\ out.kind = "share"
    /\ out.in.ttl = Some(<<"0">>)
    /\ out.resp.status = 201
    /\ out.resp.ttl = 604800
    /\ out.resp.expiresAt >= 604800 * 1000

(************************ numeric prefixes of tenant ids ************************)
\* the listings of the two tenants: without a filter, and with the wildcard search
PrefixQueries == {NoFilter, [NoFilter EXCEPT !.search = <<"%">>]}

\* the keys of tenants 1 and 11
PrefixCredentials == {"sk_1", "sk_11"}

\* a share body that passes createShareLinkSchema, and one that fails it
PrefixBodies == {[ttl |-> Null, password |-> <<>>], [ttl |-> Some(<<"1", "h">>), password |-> <<>>]}

\* the state after MaxFiles uploads of the same file at time 0, each by
\* either tenant
InitPrefix ==
    InitUploaded({tb \in UploadedTables :
                     \A i \in DOMAIN tb : \E u \in Tenants :
                                             tb[i] = UploadedRow(i, u, FirstUpload, 0)})

\* the by-id requests and the listings of the two tenants on those files, one
\* request at a time, within one millisecond
NextPrefix ==
    \/ \E cred \in PrefixCredentials, id \in FileIds, signed \in StorageOutcomes :
          DetailFind("r1", cred, id, signed)
    \/ DetailLinks("r1")
    \/ \E cred \in PrefixCredentials, id \in FileIds : DeleteFind("r1", cred, id)
    \/ \E deleted \in StorageOutcomes : DeleteObject("r1", deleted)
    \/ DeleteRecord("r1")
    \/ \E cred \in PrefixCredentials, id \in FileIds : SharesFind("r1", cred, id)
    \/ SharesLinks("r1")
    \/ \E cred \in PrefixCredentials, id \in FileIds, body \in PrefixBodies :
          ShareFind("r1", cred, id, body, SharePrefix \o <<"a">>)
    \/ ShareSave("r1")
    \/ Lists({"r1"}, PrefixQueries)
SpecPrefix == InitPrefix /\ [][NextPrefix]_vars

\* the tenants whose id, written in decimal, begins with the decimal text of a
\* and is not a
LongerTenants(a) == {b \in Tenants \ {a} : StartsWith(Decimal(b), Decimal(a))}

\* C40: when the decimal text of tenant a is a prefix of the decimal text of
\* tenant b, a /= b, every by-id request of a (details, delete, create share
\* link, list share links) for a file of b is refused with an error alone (403,
\* or 400 for a share body that fails validation) and changes nothing stored,
\* and no listing answered to a returns a file of b or counts more files than a
\* owns
NumericPrefixDenied ==
    [][ \A b \in LongerTenants(out'.user) :
           /\ ( /\ out'.kind \in ByIdKinds
                /\ out'.in.id \in FilesOf(b) ) =>
                   /\ out'.resp.status = IF BodyRejected(out') THEN 400 ELSE 403
                   /\ DOMAIN out'.resp = {"status", "error"}
                   /\ UNCHANGED <<objects, files, shareLinks>>
           /\ (out'.kind = "list" /\ out'.resp.status = 200) =>
                   /\ \A i \in DOMAIN out'.resp.files :
                         /\ ~StartsWith(out'.resp.files[i].file.key, TenantPrefix(b))
                         /\ out'.resp.files[i].file.id \notin FilesOf(b)
                   /\ out'.resp.pagination.total = Cardinality(FilesOf(out'.user))
      ]_vars

\* tenant 1 was refused the deletion of a file of tenant 11, which is still
\* stored next to a file of its own
NumericPrefixDeniedWitness ==
    /\ out.kind = "delete"
    /\ out.user = 1
    /\ out.resp.status = 403
    /\ out.in.id \in FilesOf(11)
    /\ files[out.in.id].key \in objects
    /\ FilesOf(1) /= {}

====
